---- MODULE Spec2Model ----
(***************************************************************************)
(* A model of zenithphoto's import pipeline                                *)
(* (apps/desktop/src/import/mod.rs, crates/catalog/src/services) and of    *)
(* its schema manager (crates/catalog/src/schema.rs, db/migrations.rs).    *)
(*                                                                         *)
(* Spec     : import batches against one catalog and one file system.      *)
(* SpecMig  : initialize_schema / run_migrations calls on one catalog.     *)
(* SpecText : keyword text parsed and normalized.                          *)
(* SpecScan : folder scans with their cancellation flag.                   *)
(* SpecKeywords : keyword service calls on the keyword tables.             *)
(* SpecStore : edits, collection members and full-text index rebuilds.     *)
(* SpecCrud : entity-layer inserts and deletes on the tables' rows.        *)
(***************************************************************************)
EXTENDS Integers, Sequences, FiniteSets, TLC

\* ------------------------------------------------------------------ bounds
\* Candidates in one batch.
MaxBatchLen == 2
\* Candidates handed to import batches in one behaviour, over all its batches.
MaxTotal == 3
\* Candidates, over all batches, during which an environment failure is injected.
MaxFaults == 1

\* ------------------------------------------------------------- file system
\* A path is <<folder, file name>>; NoPath is Option::None.
NoPath == <<>>
\* Option<PathBuf>::None for the destination folder.
NoDest == ""
Absent == "absent"

DestDir == "D"
\* the folder of the first source pictures, when it is also picked as destination
SourceDir == "A"
\* what is left of a file that fs::copy opened for writing before reading it
Truncated == "empty"

RawA == <<"A", "x.nef">>
JpgA == <<"A", "x.jpg">>
JpgB == <<"B", "x.jpg">>

SourcePaths == {RawA, JpgA, JpgB}

FileName(p) == p[2]

\* Path::parent (catalog_service.rs parent_path)
parent_path(p) == p[1]

\* Path::join
Join(dir, name) == <<dir, name>>

Paths == SourcePaths \cup {Join(DestDir, FileName(p)) : p \in SourcePaths}

\* File contents are named. The second source folder holds a
\* different picture under the name of the first folder's JPEG; the destination
\* folder starts empty.
InitialFs ==
    [p \in Paths |->
        IF p = RawA THEN "raw-a" ELSE IF p = JpgA THEN "jpeg-a"
        ELSE IF p = JpgB THEN "jpeg-b" ELSE Absent]

\* --------------------------------------------------------------- candidates
\* scanner::ImportCandidate (asset_type is not read by the import loop).
Candidate(raw, jpeg) == [raw_path |-> raw, jpeg_path |-> jpeg]

Candidates ==
    { Candidate(RawA, JpgA), Candidate(NoPath, JpgA),
      Candidate(NoPath, JpgB), Candidate(NoPath, NoPath) }

primary_path(c) == IF c.raw_path # NoPath THEN c.raw_path ELSE c.jpeg_path

Methods == {"Add", "Copy", "Move"}
Strategies == {"Skip", "ImportAnyway"}

\* ----------------------------------------------------------------- keywords
\* A keyword string is a sequence of characters.
IsSpace(ch) == ch \in {" ", "\t", "\n"}

RECURSIVE TrimStart(_)
TrimStart(s) ==
    IF s # <<>> /\ IsSpace(Head(s)) THEN TrimStart(Tail(s)) ELSE s

RECURSIVE TrimEnd(_)
TrimEnd(s) ==
    IF s # <<>> /\ IsSpace(s[Len(s)]) THEN TrimEnd(SubSeq(s, 1, Len(s) - 1)) ELSE s

\* str::trim
Trim(s) == TrimEnd(TrimStart(s))

InSeq(x, s) == \E i \in 1..Len(s) : s[i] = x

RECURSIVE normalize_from(_, _)
normalize_from(keywords, out) ==
    IF keywords = <<>> THEN out
    ELSE LET trimmed == Trim(Head(keywords))
         IN  normalize_from(Tail(keywords),
                 IF trimmed # <<>> /\ ~InSeq(trimmed, out)
                 THEN Append(out, trimmed) ELSE out)

normalize_keywords(keywords) == normalize_from(keywords, <<>>)

KeywordInputs == { << <<" ", "s", " ">>, <<"s">> >> }

\* ------------------------------------------------------------------- faults
\* Environment failures injected while one candidate is processed.
Faults ==
    { "hash", "find_hash", "copy_raw", "copy_jpeg", "find_path", "insert",
      "sidecar", "thumb", "keyword", "remove_source", "cleanup" }

FaultSets ==
    {{}} \cup {{f} : f \in Faults} \cup {{"insert", "cleanup"}}

\* ------------------------------------------------------------------ catalog
\* BLAKE3 of a file's bytes: distinct contents give distinct digests.
Blake3(content) == <<"blake3", content>>

\* CatalogService::compute_file_hash: fails when the file cannot be opened/read.
compute_file_hash(fsys, p, fail) ==
    IF fail \/ fsys[p] = Absent
    THEN [ok |-> FALSE, hash |-> <<>>]
    ELSE [ok |-> TRUE, hash |-> Blake3(fsys[p])]

\* Ids of the rows a lookup returns (empty: Ok(None)).
find_image_by_hash(imgs, h) ==
    {i \in 1..Len(imgs) : imgs[i].file_hash = h}

\* (mutant) the path lookup never finds a row
find_image_by_original_path_none(imgs, p) == {}

find_image_by_original_path(imgs, p) ==
    {i \in 1..Len(imgs) : imgs[i].original_path = p}

\* (mutant) a row is inserted without looking for one
ensure_folder_always_inserts(flds, path) == Append(flds, path)

\* CatalogService::ensure_folder: get-or-create by path; a folder's id is its
\* place in the table.
ensure_folder(flds, path) == IF InSeq(path, flds) THEN flds ELSE Append(flds, path)

\* CatalogService::import_image_at. fs::metadata fails on a missing file before
\* anything is written; the folder row is ensured before the image row is
\* inserted, outside any transaction; images.original_path is UNIQUE.
import_image_at(fsys, imgs, flds, path, fail) ==
    IF fsys[path] = Absent
    THEN [ok |-> FALSE, images |-> imgs, folders |-> flds, id |-> 0]
    ELSE LET flds2 == ensure_folder(flds, parent_path(path))
             id == Len(imgs) + 1
             row == [id |-> id, original_path |-> path,
                     file_hash |-> Blake3(fsys[path]),
                     sidecar_path |-> NoPath,
                     folder_id |-> CHOOSE f \in 1..Len(flds2) :
                                       flds2[f] = parent_path(path)]
             unique == \A i \in 1..Len(imgs) : imgs[i].original_path # path
         IN  IF fail \/ ~unique
             THEN [ok |-> FALSE, images |-> imgs, folders |-> flds2, id |-> 0]
             ELSE [ok |-> TRUE, images |-> Append(imgs, row),
                   folders |-> flds2, id |-> id]

\* CatalogService::update_sidecar_path
update_sidecar_path(imgs, id, sidecar) ==
    [imgs EXCEPT ![id].sidecar_path = sidecar]

\* ------------------------------------------------------- file placement
\* fs::remove_file; a failed removal leaves the file where it is.
remove_file(fsys, p, fail) ==
    IF fail THEN fsys ELSE [fsys EXCEPT ![p] = Absent]

\* copy_into_destination: fs::copy overwrites an existing destination file; it
\* fails when the source cannot be read, leaving the destination untouched.
\* When the destination is the source itself, fs::copy truncates the file on
\* opening it for writing and copies nothing.
copy_into_destination(fsys, src, dest_dir, fail) ==
    LET dest_path == Join(dest_dir, FileName(src))
    IN  IF fail \/ fsys[src] = Absent
        THEN [ok |-> FALSE, path |-> NoPath, fs |-> fsys]
        ELSE [ok |-> TRUE, path |-> dest_path,
              fs |-> [fsys EXCEPT ![dest_path] =
                         IF dest_path = src THEN Truncated ELSE fsys[src]]]

\* prepare_candidate_paths. Each copy is followed by `?`: when a copy fails the
\* function returns Err and the created_paths collected so far are dropped with it.
prepare_candidate_paths(fsys, c, method, dest_dir, faults) ==
    IF method \notin {"Copy", "Move"}
    THEN [ok |-> TRUE, raw_path |-> c.raw_path, jpeg_path |-> c.jpeg_path,
          created_paths |-> <<>>, fs |-> fsys, copied |-> {}, events |-> {}]
    ELSE
    LET r == IF c.raw_path # NoPath
             THEN copy_into_destination(fsys, c.raw_path, dest_dir,
                                        "copy_raw" \in faults)
             ELSE [ok |-> TRUE, path |-> NoPath, fs |-> fsys]
        rawCreated == IF r.ok /\ r.path # NoPath THEN <<r.path>> ELSE <<>>
    IN  IF ~r.ok
        THEN [ok |-> FALSE, raw_path |-> NoPath, jpeg_path |-> NoPath,
              created_paths |-> <<>>, fs |-> r.fs, copied |-> {},
              events |-> IF "copy_raw" \in faults THEN {"copy_raw"}
                         ELSE {"source_missing"}]
        ELSE
        LET j == IF c.jpeg_path # NoPath
                 THEN copy_into_destination(r.fs, c.jpeg_path, dest_dir,
                                            "copy_jpeg" \in faults)
                 ELSE [ok |-> TRUE, path |-> NoPath, fs |-> r.fs]
        IN  IF ~j.ok
            THEN [ok |-> FALSE, raw_path |-> NoPath, jpeg_path |-> NoPath,
                  created_paths |-> <<>>, fs |-> j.fs,
                  copied |-> {rawCreated[i] : i \in 1..Len(rawCreated)},
                  events |-> IF "copy_jpeg" \in faults THEN {"copy_jpeg"}
                             ELSE {"source_missing"}]
            ELSE
            LET created == IF j.path # NoPath
                           THEN Append(rawCreated, j.path) ELSE rawCreated
            IN  [ok |-> TRUE, raw_path |-> r.path, jpeg_path |-> j.path,
                 created_paths |-> created, fs |-> j.fs,
                 copied |-> {created[i] : i \in 1..Len(created)}, events |-> {}]

\* (mutant) the created paths are left where they are
cleanup_paths_skipped(fsys, paths, fail) == fsys

\* cleanup_paths: remove every created path; a failure is only printed.
RECURSIVE cleanup_paths(_, _, _)
cleanup_paths(fsys, paths, fail) ==
    IF paths = <<>> THEN fsys
    ELSE cleanup_paths(remove_file(fsys, Head(paths), fail), Tail(paths), fail)

\* ------------------------------------------------------ the import loop body
EmptyReport == [imported |-> 0, duplicates |-> <<>>, failed |-> <<>>, canceled |-> FALSE]

\* `callbacks.duplicate_strategy == DuplicateStrategy::Skip` (the `continue`
\* after a hash match).
\* (mutant) a hash match skips the candidate whatever the policy
skip_duplicate_always(strategy) == TRUE

\* (mutant) a hash match never skips the candidate
skip_duplicate_never(strategy) == FALSE

skip_duplicate(strategy) == strategy = "Skip"

\* `method == ImportMethod::Move` (the source files are removed after cataloging).
\* (mutant) the sources are removed whatever the method
removes_sources_always(method) == TRUE

\* (mutant) a Move keeps its source files
removes_sources_never(method) == FALSE

removes_sources(method) == method = "Move"

\* The sources a Move deletes: candidate.raw_path, then candidate.jpeg_path.
remove_sources(fsys, c, fail) ==
    LET f1 == IF c.raw_path # NoPath THEN remove_file(fsys, c.raw_path, fail) ELSE fsys
    IN  IF c.jpeg_path # NoPath THEN remove_file(f1, c.jpeg_path, fail) ELSE f1

\* Thumbnail/preview generation for a cataloged image: from the JPEG when there
\* is one, else from the RAW decoder with generate_thumbnail as the fallback.
\* A failure is only passed to on_error.
store_thumbnails(thumbs, id, prepared, fail) ==
    IF prepared.jpeg_path # NoPath
    THEN IF fail THEN [thumbnails |-> thumbs, errs |-> {"thumbnail"}]
                 ELSE [thumbnails |-> thumbs \cup {id}, errs |-> {}]
    ELSE IF prepared.raw_path # NoPath
    THEN IF fail THEN [thumbnails |-> thumbs \cup {id}, errs |-> {"raw_decode"}]
                 ELSE [thumbnails |-> thumbs \cup {id}, errs |-> {}]
    ELSE [thumbnails |-> thumbs, errs |-> {}]

\* (mutant) the keywords are not assigned
apply_keywords_dropped(kws, id, keywords, fail) == kws

\* `for kw in &normalized_keywords { add_keyword_to_image(..) }`
apply_keywords(kws, id, keywords, fail) ==
    IF fail THEN kws
    ELSE kws \cup {<<id, keywords[i]>> : i \in 1..Len(keywords)}

\* What one pass of the loop body leaves behind. status "next": the loop goes on
\* with the following candidate; "abort": a `?` returned Err from the function.
\* outcomes, errs (the on_error calls), events (the injected failures that took
\* effect), target and copied describe the pass for the properties below.
StepResult(status, s, outcomes, errs, events, target, copied) ==
    [status |-> status, fs |-> s.fs, images |-> s.images, folders |-> s.folders,
     thumbnails |-> s.thumbnails, image_keywords |-> s.image_keywords,
     report |-> s.report, outcomes |-> outcomes, errs |-> errs,
     events |-> events, target |-> target, copied |-> copied]

\* (mutant) an imported candidate is not counted
count_imported_forgotten(rep) == rep

\* `report.imported += 1`
count_imported(rep) == [rep EXCEPT !.imported = @ + 1]

push_duplicate(rep, p) == [rep EXCEPT !.duplicates = Append(@, p)]
push_failed(rep, p, why) == [rep EXCEPT !.failed = Append(@, <<p, why>>)]

\* Lines 296-366: catalog insertion and everything after it.
catalog_candidate(s, c, b, faults, prep, target, outs, errs, events) ==
    LET ins == import_image_at(prep.fs, s.images, s.folders, target, "insert" \in faults)
    IN
    IF ~ins.ok
    THEN StepResult("next",
            [s EXCEPT !.fs = cleanup_paths(prep.fs, prep.created_paths, "cleanup" \in faults),
                      !.folders = ins.folders,
                      !.report = push_failed(s.report, target, "import failed")],
            Append(outs, "failed"), errs \cup {"import"},
            events \cup {"insert"}
                \cup (IF "cleanup" \in faults /\ prep.created_paths # <<>>
                      THEN {"cleanup"} ELSE {}),
            target, prep.copied)
    ELSE
    LET sidecarFail == "sidecar" \in faults
        imgs == IF sidecarFail THEN ins.images
                ELSE update_sidecar_path(ins.images, ins.id, prep.jpeg_path)
        th == store_thumbnails(s.thumbnails, ins.id, prep, "thumb" \in faults)
        kwFail == "keyword" \in faults /\ b.keywords # <<>>
        kws == apply_keywords(s.image_keywords, ins.id, b.keywords, kwFail)
        move == removes_sources(b.method)
        rmFail == move /\ "remove_source" \in faults
        fs2 == IF move THEN remove_sources(prep.fs, c, rmFail) ELSE prep.fs
    IN  StepResult("next",
            [s EXCEPT !.fs = fs2, !.images = imgs, !.folders = ins.folders,
                      !.thumbnails = th.thumbnails, !.image_keywords = kws,
                      !.report = count_imported(s.report)],
            Append(outs, "imported"),
            errs \cup th.errs
                 \cup (IF sidecarFail THEN {"sidecar"} ELSE {})
                 \cup (IF kwFail THEN {"keyword"} ELSE {})
                 \cup (IF rmFail THEN {"remove_source"} ELSE {}),
            events \cup (IF sidecarFail THEN {"sidecar"} ELSE {})
                   \cup (IF th.errs # {} THEN {"thumb"} ELSE {})
                   \cup (IF kwFail THEN {"keyword"} ELSE {})
                   \cup (IF rmFail THEN {"remove_source"} ELSE {}),
            target, prep.copied)

\* Lines 253-287: placement and the path-based duplicate check.
place_candidate(s, c, b, faults, primary, outs, errs) ==
    LET prep == prepare_candidate_paths(s.fs, c, b.method, b.dest_dir, faults)
        target == IF prep.raw_path # NoPath THEN prep.raw_path ELSE prep.jpeg_path
        cleaned == cleanup_paths(prep.fs, prep.created_paths, "cleanup" \in faults)
        cleanupEv == IF "cleanup" \in faults /\ prep.created_paths # <<>>
                     THEN {"cleanup"} ELSE {}
    IN
    IF ~prep.ok
    THEN StepResult("next",
            [s EXCEPT !.fs = prep.fs,
                      !.report = push_failed(s.report, primary, "copy failed")],
            Append(outs, "failed"), errs \cup {"prepare"},
            prep.events, NoPath, prep.copied)
    ELSE IF target = NoPath
    THEN StepResult("next",
            [s EXCEPT !.fs = cleaned,
                      !.report = push_failed(s.report, primary,
                                     "candidate missing files after preparation")],
            Append(outs, "failed"), errs \cup {"missing"}, cleanupEv, NoPath, prep.copied)
    ELSE IF "find_path" \in faults
    THEN StepResult("abort", [s EXCEPT !.fs = prep.fs], outs, errs,
                    {"find_path"}, target, prep.copied)
    ELSE IF find_image_by_original_path(s.images, target) # {}
    THEN StepResult("next",
            [s EXCEPT !.fs = cleaned,
                      !.report = push_duplicate(s.report, target)],
            Append(outs, "dup_path"), errs \cup {"duplicate_path"},
            cleanupEv, target, prep.copied)
    ELSE catalog_candidate(s, c, b, faults, prep, target, outs, errs, {})

\* Lines 218-251: primary path, content hash and the hash-based duplicate check.
import_candidate(s, c, b, faults) ==
    LET primary == primary_path(c) IN
    IF primary = NoPath
    THEN StepResult("next",
            [s EXCEPT !.report = push_failed(s.report, NoPath, "candidate missing files")],
            <<"failed">>, {"missing"}, {}, NoPath, {})
    ELSE
    LET h == compute_file_hash(s.fs, primary, "hash" \in faults) IN
    IF ~h.ok
    THEN StepResult("abort", s, <<>>, {}, {"hash"}, NoPath, {})
    ELSE IF "find_hash" \in faults
    THEN StepResult("abort", s, <<>>, {}, {"find_hash"}, NoPath, {})
    ELSE IF find_image_by_hash(s.images, h.hash) # {}
    THEN LET s1 == [s EXCEPT !.report = push_duplicate(s.report, primary)]
         IN  IF skip_duplicate(b.strategy)
             THEN StepResult("next", s1, <<"dup_hash">>, {"duplicate_hash"}, {}, NoPath, {})
             ELSE place_candidate(s1, c, b, faults, primary,
                                  <<"dup_hash">>, {"duplicate_hash"})
    ELSE place_candidate(s, c, b, faults, primary, <<>>, {})

\* -------------------------------------------------------------------- state
VARIABLES
    fs,              \* the file system: path -> content, Absent when no file
    images,          \* catalog rows of table images, in id order
    folders,         \* paths of table folders, in id order
    thumbnails,      \* image ids with a thumbnails row
    image_keywords,  \* <<image id, keyword>> assignments
    pc,              \* "idle" | "running" | "done" (Ok(report)) | "error" (Err)
    batch,           \* arguments of the running import_images_with_callbacks call
    idx,             \* loop index: candidates the loop has gone past
    report,          \* the ImportReport being built
    cancel,          \* callbacks.cancel (CancellationFlag)
    last,            \* what the last pass of the loop body did
    outcomes,        \* per candidate gone past, its outcomes in order
    hist             \* candidates handed in, policies used, when cancel was set,
                     \* faults injected, image rows when the batch began

importVars == <<fs, images, folders, thumbnails, image_keywords, pc, batch, idx,
                report, cancel, last, outcomes, hist>>

NoBatch == [candidates |-> <<>>, method |-> "Add", dest_dir |-> NoDest,
            strategy |-> "Skip", keywords |-> <<>>]

NoLast == [idx |-> 0, cand |-> Candidate(NoPath, NoPath), status |-> "none",
           outcomes |-> <<>>, errs |-> {}, events |-> {}, target |-> NoPath,
           copied |-> {}, rows |-> 0, hashKnown |-> FALSE, targetKnown |-> FALSE]

CandidateLists ==
    UNION {[1..n -> Candidates] : n \in 1..MaxBatchLen}

ImportInit ==
    /\ fs = InitialFs
    /\ images = <<>>
    /\ folders = <<>>
    /\ thumbnails = {}
    /\ image_keywords = {}
    /\ pc = "idle"
    /\ batch = NoBatch
    /\ idx = 0
    /\ report = EmptyReport
    /\ cancel = FALSE
    /\ last = NoLast
    /\ outcomes = <<>>
    /\ hist = [total |-> 0, onlySkip |-> TRUE, cancelAt |-> -1, faults |-> 0,
               rowsAtStart |-> 0]

\* import_images_with_callbacks up to the loop (lines 192-211), called by
\* begin_import with a fresh CancellationFlag: the report is empty, the keywords
\* are normalized and the destination folder exists.
BeginImport(cands, keywords, method, destination, strategy) ==
    /\ pc = "idle"
    /\ hist.total + Len(cands) <= MaxTotal
    /\ method = "Add" => destination = NoDest
    /\ method # "Add" => destination # NoDest
    /\ batch' = [candidates |-> cands, method |-> method,
                 dest_dir |-> destination, strategy |-> strategy,
                 keywords |-> normalize_keywords(keywords)]
    /\ pc' = "running"
    /\ idx' = 0
    /\ report' = EmptyReport
    /\ cancel' = FALSE
    /\ last' = NoLast
    /\ outcomes' = <<>>
    /\ hist' = [hist EXCEPT !.total = @ + Len(cands),
                            !.onlySkip = @ /\ strategy = "Skip",
                            !.cancelAt = -1,
                            !.rowsAtStart = Len(images)]
    /\ UNCHANGED <<fs, images, folders, thumbnails, image_keywords>>

\* The same lines returning Err before any candidate is read: a Copy/Move
\* without destination (line 201), or a destination folder that cannot be
\* created (line 206). Nothing of the call outlives it but the error.
BeginImportFails(method, destination, mkdirFail) ==
    /\ pc = "idle"
    /\ method # "Add"
    /\ mkdirFail <=> destination # NoDest
    /\ mkdirFail => hist.faults < MaxFaults
    /\ pc' = "error"
    /\ hist' = [hist EXCEPT !.faults = IF mkdirFail THEN @ + 1 ELSE @]
    /\ UNCHANGED <<fs, images, folders, thumbnails, image_keywords, batch, idx,
                   report, cancel, last, outcomes>>

\* CancellationFlag::cancel, from another task, at any point of the batch.
Cancel ==
    /\ pc = "running"
    /\ ~cancel
    /\ cancel' = TRUE
    /\ hist' = [hist EXCEPT !.cancelAt = idx]
    /\ UNCHANGED <<fs, images, folders, thumbnails, image_keywords, pc, batch,
                   idx, report, last, outcomes>>

\* (mutant) the break leaves report.canceled as it was
mark_canceled_forgotten(rep) == rep

\* `report.canceled = true`
mark_canceled(rep) == [rep EXCEPT !.canceled = TRUE]

\* (mutant) the poll swallows the flag and the loop goes on
ObserveCancelAndGoOn ==
    /\ pc = "running"
    /\ idx < Len(batch.candidates)
    /\ cancel
    /\ cancel' = FALSE
    /\ UNCHANGED <<fs, images, folders, thumbnails, image_keywords, pc, batch, idx,
                   report, last, outcomes, hist>>

\* Lines 213-216: the flag is polled at the top of each pass; when set the
\* loop breaks and the function returns Ok(report).
ObserveCancel ==
    /\ pc = "running"
    /\ idx < Len(batch.candidates)
    /\ cancel
    /\ report' = mark_canceled(report)
    /\ pc' = "done"
    /\ UNCHANGED <<fs, images, folders, thumbnails, image_keywords, batch, idx,
                   cancel, last, outcomes, hist>>

\* One pass of the loop body for candidates[idx] (lines 218-366). After the
\* last candidate the loop ends without another poll: `Ok(report)`.
ProcessCandidate(faults) ==
    /\ pc = "running"
    /\ idx < Len(batch.candidates)
    /\ ~cancel
    /\ LET c == batch.candidates[idx + 1]
           s == [fs |-> fs, images |-> images, folders |-> folders,
                 thumbnails |-> thumbnails, image_keywords |-> image_keywords,
                 report |-> report]
           primary == primary_path(c)
           expected == IF primary = NoPath THEN NoPath
                       ELSE IF batch.method = "Add" THEN primary
                       ELSE Join(batch.dest_dir, FileName(primary))
       IN  \E r \in {import_candidate(s, c, batch, faults)} :
           /\ faults \subseteq r.events
           /\ faults # {} => hist.faults < MaxFaults
           /\ hist' = [hist EXCEPT !.faults = IF faults # {} THEN @ + 1 ELSE @]
           /\ fs' = r.fs
           /\ images' = r.images
           /\ folders' = r.folders
           /\ thumbnails' = r.thumbnails
           /\ image_keywords' = r.image_keywords
           /\ report' = r.report
           /\ pc' = IF r.status = "abort" THEN "error"
                    ELSE IF idx + 1 = Len(batch.candidates) THEN "done"
                    ELSE "running"
           /\ outcomes' = Append(outcomes, r.outcomes)
           /\ last' = [idx |-> idx + 1, cand |-> c, status |-> r.status,
                       outcomes |-> r.outcomes, errs |-> r.errs,
                       events |-> r.events, target |-> r.target,
                       copied |-> r.copied, rows |-> Len(images),
                       hashKnown |->
                           /\ primary # NoPath
                           /\ fs[primary] # Absent
                           /\ \E i \in 1..Len(images) :
                                  images[i].file_hash = Blake3(fs[primary]),
                       targetKnown |->
                           \E i \in 1..Len(images) :
                               images[i].original_path = expected]
    /\ idx' = idx + 1
    /\ UNCHANGED <<batch, cancel>>

\* The caller takes the result (begin_import shows the report or the error)
\* and the import view is ready for the next batch.
ReturnToCaller ==
    /\ pc \in {"done", "error"}
    /\ pc' = "idle"
    /\ batch' = NoBatch
    /\ idx' = 0
    /\ report' = EmptyReport
    /\ cancel' = FALSE
    /\ last' = NoLast
    /\ outcomes' = <<>>
    /\ hist' = [hist EXCEPT !.cancelAt = -1, !.rowsAtStart = 0]
    /\ UNCHANGED <<fs, images, folders, thumbnails, image_keywords>>

\* ------------------------------------------------------------- the catalog file
\* What one catalog file holds, as far as schema evolution reads or writes it:
\* whether catalog_metadata exists, the schema_version of its row id = 1
\* (0: no row), PRAGMA user_version, the migration steps whose SQL took effect
\* (by their `to`), whether a failed batch left part of a step behind, whether
\* the file has the old layout, how often last_opened was written, and the
\* number of rows of its images and folders tables.
LATEST_SCHEMA_VERSION == 4

TARGET_SCHEMA_VERSION == LATEST_SCHEMA_VERSION

MIGRATIONS ==
    << [from |-> 1, to |-> 2], [from |-> 2, to |-> 3], [from |-> 3, to |-> 4] >>

\* API calls and injected failures in one behaviour of the schema manager
MaxCalls == 3
MaxSchemaFaults == 2

EmptyFile ==
    [meta |-> FALSE, version |-> 0, user_version |-> 0, steps |-> <<>>,
     partial |-> FALSE, legacy |-> FALSE, opened |-> 0, images |-> {},
     folders |-> <<>>, legacy_images |-> {}]

\* rows of the old images table (id INTEGER PRIMARY KEY, file_path TEXT UNIQUE
\* NOT NULL); a path is <<directory, file name>>, the directory "" for a bare
\* file name
LegacyImageSets ==
    { {},
      {[id |-> 1, file_path |-> <<"A", "x.nef">>]},
      {[id |-> 1, file_path |-> <<"A", "x.nef">>],
       [id |-> 2, file_path |-> <<"A", "y.nef">>]},
      {[id |-> 2, file_path |-> <<"B", "z.nef">>],
       [id |-> 3, file_path |-> <<"A", "x.nef">>]},
      {[id |-> 2, file_path |-> <<"", "x.nef">>]} }

\* an old-layout file with one picture; the old layout has no folders table
LegacyFile ==
    [EmptyFile EXCEPT !.legacy = TRUE,
                      !.legacy_images = {[id |-> 1, file_path |-> <<"A", "x.nef">>]}]

\* a catalog left at version v by this or another build
CatalogAt(v) ==
    [EmptyFile EXCEPT !.meta = TRUE, !.version = v, !.user_version = v,
                      !.steps = [i \in 1..(v - 1) |-> i + 1],
                      !.images = {[id |-> 1, folder_id |-> 1, filename |-> "x.nef",
                                   original_path |-> <<"A", "x.nef">>]},
                      !.folders = <<"A">>]

InitialFiles ==
    {EmptyFile} \cup {CatalogAt(v) : v \in 1..(LATEST_SCHEMA_VERSION + 1)}
    \cup {[LegacyFile EXCEPT !.legacy_images = rows] : rows \in LegacyImageSets}

\* Connection::open on a file: no transaction, the connection reads what is stored
Connection(file) == [stored |-> file, view |-> file, tx |-> FALSE]

\* a statement: seen by the connection at once, stored at once unless a
\* transaction is open
exec(c, newView) ==
    [c EXCEPT !.view = newView, !.stored = IF c.tx THEN @ ELSE newView]

\* (mutant) the statements that follow run without a transaction
begin_immediate_forgotten(c) == c

begin_immediate(c) == [c EXCEPT !.tx = TRUE]
commit(c) == [c EXCEPT !.stored = c.view, !.tx = FALSE]
rollback(c) == [c EXCEPT !.view = c.stored, !.tx = FALSE]

\* the outcome of a call: the connection after it, "none" or the error, the
\* steps committed, the `from` of the step whose SQL failed (0: none), and the
\* injected failures that were met
Outcome(c, err, applied, sqlFailedAt, events) ==
    [c |-> c, err |-> err, applied |-> applied, sqlFailedAt |-> sqlFailedAt,
     events |-> events]

NoFault == [at |-> 0, kinds |-> {}]

StepFaultKinds ==
    {{"begin"}, {"sql"}, {"sql", "rollback"}, {"update"}, {"pragma"}, {"commit"}}

StepFaults ==
    {[at |-> MIGRATIONS[i].from, kinds |-> k] :
        i \in 1..Len(MIGRATIONS), k \in StepFaultKinds}

InitFaults ==
    {[at |-> 0, kinds |-> {k}] :
        k \in {"pragmas", "legacy", "legacy_commit", "base", "set_version",
               "set_pragma", "last_opened"}}
    \cup {[at |-> 0, kinds |-> {"legacy", "legacy_rollback"}]}

table_exists(c, name) ==
    IF name = "catalog_metadata" THEN c.view.meta ELSE c.view.legacy

current_schema_version_for_conn(c) == c.view.version

set_schema_version_for_conn(c, version, pragmaFails) ==
    LET c1 == exec(c, [c.view EXCEPT !.version = version])
    IN  IF pragmaFails
        THEN [ok |-> FALSE, c |-> c1]
        ELSE [ok |-> TRUE, c |-> exec(c1, [c1.view EXCEPT !.user_version = version])]

\* (mutant) a failing step batch is taken for a success
execute_step_sql_unchecked(c, m, fail) ==
    [ok |-> TRUE, c |-> exec(c, [c.view EXCEPT !.steps = Append(@, m.to)])]

\* conn.execute_batch(migration.sql)
execute_step_sql(c, m, fail) ==
    IF fail
    THEN [ok |-> FALSE, c |-> exec(c, [c.view EXCEPT !.partial = TRUE])]
    ELSE [ok |-> TRUE, c |-> exec(c, [c.view EXCEPT !.steps = Append(@, m.to)])]

\* (mutant) the step taken is the last one that starts at or after the version
find_migration_skipping(migrations, version) ==
    LET later == {i \in 1..Len(migrations) : migrations[i].from >= version}
    IN  IF later = {} THEN 0 ELSE CHOOSE i \in later : \A j \in later : j <= i

\* `for migration in migrations { if migration.from != version { continue; } ...`:
\* the index of the first step starting at the version, 0 if there is none
find_migration(migrations, version) ==
    LET here == {i \in 1..Len(migrations) : migrations[i].from = version}
    IN  IF here = {} THEN 0 ELSE CHOOSE i \in here : \A j \in here : i <= j

\* one step in its transaction
apply_migration(c, m, kinds) ==
    IF c.tx \/ "begin" \in kinds
    THEN Outcome(c, "begin", <<>>, 0, kinds \cap {"begin"})
    ELSE
    LET sql == execute_step_sql(begin_immediate(c), m, "sql" \in kinds)
        failedAt == IF "sql" \in kinds THEN m.from ELSE 0
    IN  IF ~sql.ok
        THEN IF "rollback" \in kinds
             THEN Outcome(sql.c, "rollback", <<>>, failedAt, {"sql", "rollback"})
             ELSE Outcome(rollback(sql.c), "sql", <<>>, failedAt, {"sql"})
        ELSE IF "update" \in kinds
        THEN Outcome(sql.c, "update", <<>>, failedAt, kinds \cap {"sql", "update"})
        ELSE
        LET c3 == exec(sql.c, [sql.c.view EXCEPT
                                  !.version = IF @ = 0 THEN 0 ELSE m.to])
        IN  IF "pragma" \in kinds
            THEN Outcome(c3, "pragma", <<>>, failedAt, kinds \cap {"sql", "pragma"})
            ELSE
            LET c4 == exec(c3, [c3.view EXCEPT !.user_version = m.to])
            IN  IF "commit" \in kinds
                THEN Outcome(c4, "commit", <<>>, failedAt, kinds \cap {"sql", "commit"})
                ELSE Outcome(commit(c4), "none", <<m.to>>, failedAt,
                             kinds \cap {"sql"})

\* `while progressed && version < target`: `so_far` is what the steps already
\* taken have committed and met
RECURSIVE migrate_loop(_, _, _, _, _, _)
migrate_loop(c, migrations, version, target, fault, so_far) ==
    LET i == find_migration(migrations, version)
    IN  IF version >= target \/ i = 0
        THEN [version |-> version,
              outcome |-> Outcome(c, "none", so_far.applied, so_far.sqlFailedAt,
                                  so_far.events)]
        ELSE
        LET m == migrations[i]
            r == apply_migration(c, m, IF fault.at = m.from THEN fault.kinds ELSE {})
            merged == Outcome(r.c, r.err, so_far.applied \o r.applied,
                              IF r.sqlFailedAt # 0 THEN r.sqlFailedAt
                                                   ELSE so_far.sqlFailedAt,
                              so_far.events \cup r.events)
        IN  IF r.err # "none"
            THEN [version |-> version, outcome |-> merged]
            ELSE migrate_loop(r.c, migrations, m.to, target, fault, merged)

\* (mutant) the version reached is not compared with the target
run_migrations_for_conn_unchecked(c, migrations, fault) ==
    IF ~table_exists(c, "catalog_metadata")
    THEN Outcome(c, "no_table", <<>>, 0, {})
    ELSE
    LET version == current_schema_version_for_conn(c)
        target == IF Len(migrations) > 0 THEN migrations[Len(migrations)].to
                                         ELSE version
    IN  IF version > target
        THEN Outcome(c, "newer", <<>>, 0, {})
        ELSE migrate_loop(c, migrations, version, target, fault,
                          Outcome(c, "none", <<>>, 0, {})).outcome

run_migrations_for_conn(c, migrations, fault) ==
    IF ~table_exists(c, "catalog_metadata")
    THEN Outcome(c, "no_table", <<>>, 0, {})
    ELSE
    LET version == current_schema_version_for_conn(c)
        target == IF Len(migrations) > 0 THEN migrations[Len(migrations)].to
                                         ELSE version
    IN  IF version > target
        THEN Outcome(c, "newer", <<>>, 0, {})
        ELSE
        LET r == migrate_loop(c, migrations, version, target, fault,
                              Outcome(c, "none", <<>>, 0, {}))
        IN  IF r.outcome.err = "none" /\ r.version # target
            THEN [r.outcome EXCEPT !.err = "missing_path"]
            ELSE r.outcome

is_legacy_schema(c) ==
    /\ ~table_exists(c, "catalog_metadata")
    /\ table_exists(c, "images")

\* (mutant) the path is not split: every picture is filed under one "." folder
migrate_legacy_images_unsplit(legacy) ==
    [images |-> {[id |-> row.id, folder_id |-> 1, filename |-> row.file_path[2],
                  original_path |-> row.file_path] : row \in legacy},
     folders |-> IF legacy = {} THEN <<>> ELSE <<".">>]

\* one new-shape row per legacy row, in rowid order: the parent directory
\* ("." when the path has none) is looked up in folders and inserted when
\* missing (ensure_folder_id), the row keeps its id and its whole path becomes
\* original_path
migrate_legacy_images(legacy) ==
    LET RECURSIVE copy_rows(_, _, _)
        copy_rows(rest, imgs, flds) ==
            IF rest = {}
            THEN [images |-> imgs, folders |-> flds]
            ELSE LET row == CHOOSE r \in rest : \A o \in rest : r.id <= o.id
                     folder_path == IF row.file_path[1] = "" THEN "."
                                    ELSE row.file_path[1]
                     flds2 == IF InSeq(folder_path, flds) THEN flds
                              ELSE Append(flds, folder_path)
                     folder_id == CHOOSE f \in 1..Len(flds2) : flds2[f] = folder_path
                 IN  copy_rows(rest \ {row},
                               imgs \cup {[id |-> row.id, folder_id |-> folder_id,
                                           filename |-> row.file_path[2],
                                           original_path |-> row.file_path]},
                               flds2)
    IN  copy_rows(legacy, {}, <<>>)

\* renames, base schema, copies and drops inside one transaction; the base
\* schema is taken to create catalog_metadata without a row. A failure inside
\* leaves part of the work behind until ROLLBACK, whose own failure is ignored
\* (`let _ = conn.execute_batch("ROLLBACK")`).
migrate_legacy_schema(c, kinds) ==
    IF c.tx
    THEN [ok |-> FALSE, c |-> c, events |-> {}]
    ELSE
    LET c1 == begin_immediate(c)
        failed == exec(c1, [c1.view EXCEPT !.partial = TRUE])
    IN  IF "legacy" \in kinds
        THEN IF "legacy_rollback" \in kinds
             THEN [ok |-> FALSE, events |-> {"legacy", "legacy_rollback"},
                   c |-> failed]
             ELSE [ok |-> FALSE, events |-> {"legacy"}, c |-> rollback(failed)]
        ELSE
        LET moved == migrate_legacy_images(c1.view.legacy_images)
            c2 == exec(c1, [c1.view EXCEPT
                               !.meta = TRUE, !.legacy = FALSE,
                               !.legacy_images = {},
                               !.images = moved.images,
                               !.folders = moved.folders])
        IN  IF "legacy_commit" \in kinds
            THEN [ok |-> FALSE, c |-> c2, events |-> {"legacy_commit"}]
            ELSE [ok |-> TRUE, c |-> commit(c2), events |-> {}]

\* conn.execute_batch(CATALOG_SCHEMA_SQL): creates catalog_metadata, no row
install_base_schema(c) == exec(c, [c.view EXCEPT !.meta = TRUE])

\* (mutant) the baseline version is never written
needs_baseline_never(current_version) == FALSE

\* (mutant) a version this build does not know is reset to the baseline
needs_baseline_unless_supported(current_version) ==
    current_version \notin 1..TARGET_SCHEMA_VERSION

\* (mutant) the baseline version is written over any version
needs_baseline_always(current_version) == TRUE

\* `if current_version == 0`
needs_baseline(current_version) == current_version = 0

\* initialize_schema from the metadata-table test on (lines 32-62)
initialize_versioned(c, fault, events) ==
    LET kinds == IF fault.at = 0 THEN fault.kinds ELSE {}
    IN
    IF ~table_exists(c, "catalog_metadata") /\ "base" \in kinds
    THEN Outcome(c, "base", <<>>, 0, events \cup {"base"})
    ELSE
    LET c1 == IF table_exists(c, "catalog_metadata") THEN c
                                                     ELSE install_base_schema(c)
        baseline == needs_baseline(current_schema_version_for_conn(c1))
    IN
    IF baseline /\ "set_version" \in kinds
    THEN Outcome(c1, "set_version", <<>>, 0, events \cup {"set_version"})
    ELSE
    LET set == IF baseline
               THEN set_schema_version_for_conn(c1, 1, "set_pragma" \in kinds)
               ELSE [ok |-> TRUE, c |-> c1]
    IN
    IF ~set.ok
    THEN Outcome(set.c, "set_pragma", <<>>, 0, events \cup {"set_pragma"})
    ELSE IF current_schema_version_for_conn(set.c) > TARGET_SCHEMA_VERSION
    THEN Outcome(set.c, "newer", <<>>, 0, events)
    ELSE
    LET r == run_migrations_for_conn(set.c, MIGRATIONS, fault)
        ev == events \cup r.events
    IN
    IF r.err # "none"
    THEN [r EXCEPT !.events = ev]
    ELSE IF "last_opened" \in kinds
    THEN [r EXCEPT !.err = "last_opened", !.events = ev \cup {"last_opened"}]
    ELSE [r EXCEPT !.c = exec(r.c, [r.c.view EXCEPT !.opened = @ + 1]),
                   !.events = ev]

initialize_schema(c, fault) ==
    LET kinds == IF fault.at = 0 THEN fault.kinds ELSE {}
    IN
    IF "pragmas" \in kinds
    THEN Outcome(c, "pragmas", <<>>, 0, {"pragmas"})
    ELSE IF is_legacy_schema(c)
    THEN LET legacy == migrate_legacy_schema(c, kinds)
         IN  IF legacy.ok
             THEN initialize_versioned(legacy.c, fault, legacy.events)
             ELSE Outcome(legacy.c, "legacy", <<>>, 0, legacy.events)
    ELSE initialize_versioned(c, fault, {})

\* ------------------------------------------------- schema manager as a machine
VARIABLES
    catalog,         \* the open connection: what is stored, what it reads, open transaction
    call,            \* the last call on it: which, how it ended, the connection before it
    schemaHist       \* calls made and failures injected so far

schemaVars == <<catalog, call, schemaHist>>

NoCall == [op |-> "none", result |-> "none", pre |-> Connection(EmptyFile),
           applied |-> <<>>, sqlFailedAt |-> 0, events |-> {}]

CallRecord(op, pre, r) ==
    [op |-> op, result |-> IF r.err = "none" THEN "ok" ELSE r.err, pre |-> pre,
     applied |-> r.applied, sqlFailedAt |-> r.sqlFailedAt, events |-> r.events]

\* an opened, up-to-date catalog: what the import workflow runs on
OpenedCatalog ==
    Connection([CatalogAt(LATEST_SCHEMA_VERSION) EXCEPT
                   !.opened = 1, !.images = {}, !.folders = <<>>])

SchemaIdle ==
    /\ catalog = OpenedCatalog
    /\ call = NoCall
    /\ schemaHist = [calls |-> 0, faults |-> 0]

SchemaInit ==
    /\ catalog \in {Connection(f) : f \in InitialFiles}
    /\ call = NoCall
    /\ schemaHist = [calls |-> 0, faults |-> 0]

Charge(fault) ==
    [schemaHist EXCEPT !.calls = @ + 1,
                       !.faults = IF fault.kinds = {} THEN @ ELSE @ + 1]

Affordable(fault, r) ==
    /\ schemaHist.calls < MaxCalls
    /\ fault.kinds \subseteq r.events
    /\ fault.kinds # {} => schemaHist.faults < MaxSchemaFaults

\* schema::initialize_schema(conn)
InitializeSchema(fault) ==
    \E r \in {initialize_schema(catalog, fault)} :
        /\ Affordable(fault, r)
        /\ catalog' = r.c
        /\ call' = CallRecord("initialize_schema", catalog, r)
        /\ schemaHist' = Charge(fault)

\* migrations::run_migrations(db)
RunMigrations(fault) ==
    \E r \in {run_migrations_for_conn(catalog, MIGRATIONS, fault)} :
        /\ Affordable(fault, r)
        /\ catalog' = r.c
        /\ call' = CallRecord("run_migrations", catalog, r)
        /\ schemaHist' = Charge(fault)

\* the connection is dropped and the file opened again: an open transaction is
\* rolled back
Reconnect ==
    /\ call.op # "none"
    /\ catalog' = Connection(catalog.stored)
    /\ call' = NoCall
    /\ UNCHANGED schemaHist

\* ------------------------------------------------------------- keyword text
\* parse_keywords on a line of keyword text, then what the import does with it.
\* Text is a sequence of characters.
MaxRawLen == 4

KeywordAlphabet == {"a", "b", ",", " ", "\n"}

\* "  a, b\nb ,,c "
ExampleText ==
    <<" ", " ", "a", ",", " ", "b", "\n", "b", " ", ",", ",", "c", " ">>

RawTexts ==
    UNION {[1..n -> KeywordAlphabet] : n \in 0..MaxRawLen} \cup {ExampleText}

\* str::split: the pieces between separators, empty ones included
RECURSIVE split_from(_, _, _)
split_from(s, sep, piece) ==
    IF s = <<>> THEN <<piece>>
    ELSE IF Head(s) = sep
         THEN <<piece>> \o split_from(Tail(s), sep, <<>>)
         ELSE split_from(Tail(s), sep, Append(piece, Head(s)))

split(s, sep) == split_from(s, sep, <<>>)

\* .flat_map(|chunk| chunk.split('\n'))
RECURSIVE flat_split(_, _)
flat_split(chunks, sep) ==
    IF chunks = <<>> THEN <<>>
    ELSE split(Head(chunks), sep) \o flat_split(Tail(chunks), sep)

\* .map(|kw| kw.trim().to_string()).filter(|kw| !kw.is_empty())
RECURSIVE trim_and_keep(_)
trim_and_keep(pieces) ==
    IF pieces = <<>> THEN <<>>
    ELSE LET kw == Trim(Head(pieces))
         IN  (IF kw # <<>> THEN <<kw>> ELSE <<>>) \o trim_and_keep(Tail(pieces))

parse_keywords(raw) == trim_and_keep(flat_split(split(raw, ","), "\n"))

VARIABLES
    text             \* a keyword line: the raw text, how far it got, the list made of it

textVars == <<text>>

TextIdle == text = [raw |-> <<>>, stage |-> "raw", keywords |-> <<>>]

TextInit ==
    text \in {[raw |-> r, stage |-> "raw", keywords |-> <<>>] : r \in RawTexts}

\* main.rs: parse_keywords(keyword_text.as_str())
ParseKeywords ==
    /\ text.stage = "raw"
    /\ text' = [text EXCEPT !.stage = "parsed", !.keywords = parse_keywords(text.raw)]

\* import_images_with_callbacks: normalize_keywords(keywords)
NormalizeKeywords ==
    /\ text.stage = "parsed"
    /\ text' = [text EXCEPT !.stage = "normalized",
                            !.keywords = normalize_keywords(text.keywords)]

\* ------------------------------------------------------------ folder scan
\* apps/desktop/src/import/scanner.rs and scan_directory_blocking in
\* import/mod.rs.  A file name is its sequence of characters; a path is the
\* pair <<parent folder, file name>>.

MaxScans == 2

\* u8::to_ascii_lowercase on the letters that occur in the names below
LowerOf ==
    ("D" :> "d") @@ ("E" :> "e") @@ ("F" :> "f") @@ ("G" :> "g") @@
    ("J" :> "j") @@ ("N" :> "n") @@ ("P" :> "p")

to_ascii_lowercase(s) ==
    [i \in 1..Len(s) |-> IF s[i] \in DOMAIN LowerOf THEN LowerOf[s[i]] ELSE s[i]]

\* the byte of a character, which is what paths are ordered by
Byte ==
    ("." :> 46) @@ ("A" :> 65) @@ ("B" :> 66) @@ ("D" :> 68) @@ ("E" :> 69) @@
    ("F" :> 70) @@ ("G" :> 71) @@ ("J" :> 74) @@ ("N" :> 78) @@ ("P" :> 80) @@
    ("d" :> 100) @@ ("e" :> 101) @@ ("f" :> 102) @@ ("g" :> 103) @@
    ("j" :> 106) @@ ("n" :> 110) @@ ("p" :> 112) @@ ("r" :> 114) @@
    ("t" :> 116) @@ ("x" :> 120)

DirEntry(kind, parent, name) == [kind |-> kind, parent |-> parent, name |-> name]

RootEntry == DirEntry("dir", <<>>, <<"A">>)

\* A/D.NEF, A/d.jpg, A/d.png, A/n.txt, A/r and B/D.JPG
ScanFiles ==
    { DirEntry("file", <<"A">>, <<"D", ".", "N", "E", "F">>),
      DirEntry("file", <<"A">>, <<"d", ".", "j", "p", "g">>),
      DirEntry("file", <<"A">>, <<"d", ".", "p", "n", "g">>),
      DirEntry("file", <<"A">>, <<"n", ".", "t", "x", "t">>),
      DirEntry("file", <<"A">>, <<"r">>),
      DirEntry("file", <<"B">>, <<"D", ".", "J", "P", "G">>) }

entry_path(e) == <<e.parent, e.name>>

\* the place of the last "." of a name, 0 when it has none
LastDot(name) ==
    LET dots == {i \in 1..Len(name) : name[i] = "."}
    IN  IF dots = {} THEN 0 ELSE CHOOSE i \in dots : \A j \in dots : j <= i

NoExtension == <<>>

\* Path::extension: nothing without a dot, or when the only dot leads the name
extension(path) ==
    LET name == path[2]
    IN  IF LastDot(name) <= 1 THEN NoExtension
        ELSE SubSeq(name, LastDot(name) + 1, Len(name))

\* Path::file_stem
file_stem(path) ==
    LET name == path[2]
    IN  IF LastDot(name) <= 1 THEN name ELSE SubSeq(name, 1, LastDot(name) - 1)

SUPPORTED_RAW_EXTENSIONS ==
    { <<".", "r", "a", "f">>, <<".", "c", "r", "2">>, <<".", "c", "r", "3">>,
      <<".", "n", "e", "f">>, <<".", "a", "r", "w">>, <<".", "o", "r", "f">>,
      <<".", "d", "n", "g">> }

is_supported_raw_extension(ext) == to_ascii_lowercase(ext) \in SUPPORTED_RAW_EXTENSIONS

SUPPORTED_RASTER_EXTENSIONS ==
    { <<"j", "p", "g">>, <<"j", "p", "e", "g">>, <<"p", "n", "g">>,
      <<"t", "i", "f", "f">>, <<"t", "i", "f">>, <<"j", "x", "l">>,
      <<"h", "e", "i", "f">>, <<"h", "e", "i", "c">> }

ScanCandidate(raw, jpeg, type) ==
    [raw_path |-> raw, jpeg_path |-> jpeg, asset_type |-> type]

stem_key_exact(stem) == stem

\* the stem half of the pairing key
stem_key(stem) == to_ascii_lowercase(stem)

\* one turn of the walk loop below its cancellation poll: the map after `e`
scan_entry(map, e) ==
    LET path == entry_path(e)
        ext == to_ascii_lowercase(extension(path))
        is_jpeg == ext \in {<<"j", "p", "g">>, <<"j", "p", "e", "g">>}
        is_raw == is_supported_raw_extension(<<".">> \o ext)
        is_supported_raster == ext \in SUPPORTED_RASTER_EXTENSIONS
        key == <<e.parent, stem_key(file_stem(path))>>
        old == IF key \in DOMAIN map THEN map[key]
               ELSE ScanCandidate(NoPath, NoPath, "JpegOnly")
        new == IF is_raw THEN [old EXCEPT !.raw_path = path]
               ELSE [old EXCEPT !.jpeg_path = path]
    IN  IF e.kind # "file" THEN map
        ELSE IF extension(path) = NoExtension THEN map
        ELSE IF ~is_jpeg /\ ~is_raw /\ ~is_supported_raster THEN map
        ELSE [k \in DOMAIN map \cup {key} |-> IF k = key THEN new ELSE map[k]]

classify(c) ==
    [c EXCEPT !.asset_type =
        IF c.raw_path # NoPath /\ c.jpeg_path # NoPath THEN "RawWithJpeg"
        ELSE IF c.raw_path # NoPath THEN "RawOnly"
        ELSE "JpegOnly"]

RECURSIVE bytes_less(_, _)
bytes_less(a, b) ==
    IF b = <<>> THEN FALSE
    ELSE IF a = <<>> THEN TRUE
    ELSE IF Byte[Head(a)] # Byte[Head(b)] THEN Byte[Head(a)] < Byte[Head(b)]
    ELSE bytes_less(Tail(a), Tail(b))

\* Ord for PathBuf: component by component
path_less(p, q) ==
    IF p[1] # q[1] THEN bytes_less(p[1], q[1]) ELSE bytes_less(p[2], q[2])

RECURSIVE sort_by_primary_path(_)
sort_by_primary_path(cands) ==
    IF cands = {} THEN <<>>
    ELSE LET first == CHOOSE c \in cands : \A d \in cands \ {c} :
                          path_less(primary_path(c), primary_path(d))
         IN  <<first>> \o sort_by_primary_path(cands \ {first})

\* what scan_folder_for_import returns once its walk has ended with `map`
scan_result(map) == sort_by_primary_path({classify(map[k]) : k \in DOMAIN map})

\* CancellationFlag: a handle is the number of the shared cell it points to
CancellationFlag_default(cells) == Append(cells, FALSE)

CancellationFlag_clone_detached(cells, h) == [cells |-> Append(cells, cells[h]), handle |-> Len(cells) + 1]

CancellationFlag_clone(cells, h) == [cells |-> cells, handle |-> h]

CancellationFlag_cancel(cells, h) == [cells EXCEPT ![h] = TRUE]

CancellationFlag_is_canceled(cells, h) == cells[h]

VARIABLES
    scan,            \* the folder, the walk, the emit loop and what came out
    flags            \* the cancellation cells and who holds which

scanVars == <<scan, flags>>

NoScanCancel == [phase |-> "none", keys |-> {}]

IdleScan(files) ==
    [dir |-> files, phase |-> "idle", scans |-> 0, pending |-> {}, map |-> <<>>,
     assets |-> <<>>, next |-> 1, out |-> <<>>, emitted |-> <<>>,
     origin |-> 0, canceledAt |-> NoScanCancel]

\* ImportViewState::new: scan_cancel is a fresh flag, nobody else holds one
FreshFlags == [cells |-> <<FALSE>>, ui |-> 1, worker |-> 0]

ScanIdle == scan = IdleScan({}) /\ flags = FreshFlags

ScanInit == scan \in {IdleScan(files) : files \in SUBSET ScanFiles} /\ flags = FreshFlags

\* the walk is over: the emit loop starts, or has nothing to run over
EndWalk(s, map) ==
    LET assets == scan_result(map)
    IN  [s EXCEPT !.map = map, !.assets = assets, !.next = 1,
                  !.phase = IF assets = <<>> THEN "done" ELSE "emit"]

\* start_scan: reset_for_scan cancels and replaces scan_cancel, the scan gets
\* a clone of the new flag and begins its walk
StartScan ==
    /\ scan.phase \in {"idle", "done"}
    /\ scan.scans < MaxScans
    /\ LET fresh == CancellationFlag_default(CancellationFlag_cancel(flags.cells, flags.ui))
           ui == Len(fresh)
           cloned == CancellationFlag_clone(fresh, ui)
       IN  /\ flags' = [cells |-> cloned.cells, ui |-> ui, worker |-> cloned.handle]
           /\ scan' = [scan EXCEPT !.phase = "walk", !.scans = @ + 1,
                                   !.pending = scan.dir \cup {RootEntry},
                                   !.map = <<>>, !.assets = <<>>, !.next = 1,
                                   !.out = <<>>, !.emitted = <<>>,
                                   !.origin = ui, !.canceledAt = NoScanCancel]

\* on_cancel_import: scan_cancel.cancel()
CancelScan ==
    /\ ~CancellationFlag_is_canceled(flags.cells, flags.ui)
    /\ flags' = [flags EXCEPT !.cells = CancellationFlag_cancel(flags.cells, flags.ui)]
    /\ scan' = [scan EXCEPT !.canceledAt =
                    IF scan.phase \in {"walk", "emit"}
                    THEN [phase |-> scan.phase, keys |-> DOMAIN scan.map]
                    ELSE @]

\* scan_folder_for_import, one entry of the walk: WalkDir yields the root
\* first and the files below it in an order the file system decides
WalkEntry(e) ==
    /\ scan.phase = "walk"
    /\ e \in scan.pending
    /\ e = RootEntry \/ RootEntry \notin scan.pending
    /\ ~CancellationFlag_is_canceled(flags.cells, flags.worker)
    /\ LET map == scan_entry(scan.map, e)
           rest == scan.pending \ {e}
       IN  scan' = IF rest = {} THEN EndWalk([scan EXCEPT !.pending = rest], map)
                   ELSE [scan EXCEPT !.pending = rest, !.map = map]
    /\ UNCHANGED flags

\* scan_folder_for_import, the poll sees the flag set: break
WalkCanceled ==
    /\ scan.phase = "walk"
    /\ scan.pending # {}
    /\ CancellationFlag_is_canceled(flags.cells, flags.worker)
    /\ scan' = EndWalk(scan, scan.map)
    /\ UNCHANGED flags

\* (mutant) the candidate is returned without being passed to on_candidate
EmitAssetUnreported ==
    /\ scan.phase = "emit"
    /\ ~CancellationFlag_is_canceled(flags.cells, flags.worker)
    /\ scan' = [scan EXCEPT !.out = Append(@, scan.assets[scan.next]),
                            !.next = @ + 1,
                            !.phase = IF scan.next = Len(scan.assets)
                                      THEN "done" ELSE "emit"]
    /\ UNCHANGED flags

\* scan_directory_blocking, one asset of the emit loop
EmitAsset ==
    /\ scan.phase = "emit"
    /\ ~CancellationFlag_is_canceled(flags.cells, flags.worker)
    /\ LET asset == scan.assets[scan.next]
       IN  scan' = [scan EXCEPT !.emitted = Append(@, asset),
                                !.out = Append(@, asset),
                                !.next = @ + 1,
                                !.phase = IF scan.next = Len(scan.assets)
                                          THEN "done" ELSE "emit"]
    /\ UNCHANGED flags

\* scan_directory_blocking, the poll sees the flag set: break
EmitCanceled ==
    /\ scan.phase = "emit"
    /\ CancellationFlag_is_canceled(flags.cells, flags.worker)
    /\ scan' = [scan EXCEPT !.phase = "done"]
    /\ UNCHANGED flags

\* -------------------------------------------------------- keyword service
\* CatalogService::update_keywords, add_keyword_to_image and
\* remove_keyword_from_image on the tables keywords (id = place in the list,
\* keyword text unique) and image_keywords (rows in insertion order, primary
\* key (image_id, keyword_id)).  Every statement is committed on its own.

MaxKeywordCalls == 3
MaxKeywordFaults == 1
MaxKeywordLen == 2

KeywordImages == {"img1", "img2"}

\* "d", " n" and a blank
KeywordTexts == { <<"d">>, <<" ", "n">>, <<" ">> }

KeywordLists == UNION {[1..n -> KeywordTexts] : n \in 0..MaxKeywordLen}

\* Keyword::get_or_create: the table and the id of the row with this text
get_or_create(keywords, word) ==
    IF \E i \in 1..Len(keywords) : keywords[i] = word
    THEN [keywords |-> keywords,
          id |-> CHOOSE i \in 1..Len(keywords) : keywords[i] = word]
    ELSE [keywords |-> Append(keywords, word), id |-> Len(keywords) + 1]

AssignmentRow(image_id, keyword_id) == [image_id |-> image_id, keyword_id |-> keyword_id]

\* ImageKeyword::insert, a plain INSERT: a second row with the same key is
\* refused by the primary key
ImageKeyword_insert(rows, image_id, keyword_id) ==
    IF InSeq(AssignmentRow(image_id, keyword_id), rows)
    THEN [rows |-> rows, ok |-> FALSE]
    ELSE [rows |-> Append(rows, AssignmentRow(image_id, keyword_id)), ok |-> TRUE]

\* INSERT OR IGNORE INTO image_keywords
insert_or_ignore(rows, image_id, keyword_id) ==
    IF InSeq(AssignmentRow(image_id, keyword_id), rows) THEN rows
    ELSE Append(rows, AssignmentRow(image_id, keyword_id))

\* ImageKeyword::delete
ImageKeyword_delete(rows, image_id, keyword_id) ==
    SelectSeq(rows, LAMBDA r : r # AssignmentRow(image_id, keyword_id))

\* ImageKeyword::list_keywords_for_image, as the set of its keyword ids
list_keywords_for_image(db, image_id) ==
    { db.image_keywords[i].keyword_id :
        i \in {j \in 1..Len(db.image_keywords) : db.image_keywords[j].image_id = image_id} }

\* (mutant) the entries are taken as they come
desired_set_untrimmed(keywords) == {keywords[i] : i \in 1..Len(keywords)} \ {<<>>}

\* the HashSet `desired`
desired_set(keywords) == {Trim(keywords[i]) : i \in 1..Len(keywords)} \ {<<>>}

\* ORDER BY k.keyword
RECURSIVE order_by_keyword(_, _)
order_by_keyword(db, ids) ==
    IF ids = {} THEN <<>>
    ELSE LET first == CHOOSE a \in ids : \A b \in ids \ {a} :
                          bytes_less(db.keywords[a], db.keywords[b])
         IN  <<first>> \o order_by_keyword(db, ids \ {first})

\* one write of update_keywords
keyword_write(db, image_id, w) ==
    IF w.kind = "insert"
    THEN LET k == get_or_create(db.keywords, w.text)
             r == ImageKeyword_insert(db.image_keywords, image_id, k.id)
         IN  [db |-> [keywords |-> k.keywords, image_keywords |-> r.rows], ok |-> r.ok]
    ELSE [db |-> [db EXCEPT !.image_keywords =
                      ImageKeyword_delete(db.image_keywords, image_id, w.id)],
          ok |-> TRUE]

\* the writes in order; the one numbered failAt fails, and `?` returns Err
RECURSIVE keyword_writes(_, _, _, _, _)
keyword_writes(db, image_id, writes, n, failAt) ==
    IF writes = <<>> THEN [db |-> db, ok |-> TRUE]
    ELSE IF n = failAt THEN [db |-> db, ok |-> FALSE]
    ELSE LET r == keyword_write(db, image_id, Head(writes))
         IN  IF ~r.ok THEN r
             ELSE keyword_writes(r.db, image_id, Tail(writes), n + 1, failAt)

\* the texts update_keywords has to insert, and the ids it has to delete
update_missing(db, image_id, keywords) ==
    desired_set(keywords) \
        {db.keywords[id] : id \in list_keywords_for_image(db, image_id)}

update_surplus(db, image_id, keywords) ==
    {id \in list_keywords_for_image(db, image_id) :
        db.keywords[id] \notin desired_set(keywords)}

\* the orders in which a HashSet may hand out its elements
Orders(S) == {o \in [1..Cardinality(S) -> S] : \A x \in S : InSeq(x, o)}

update_keywords(db, image_id, keywords, order, failAt) ==
    LET surplus == order_by_keyword(db, update_surplus(db, image_id, keywords))
        writes == [i \in 1..Len(order) |-> [kind |-> "insert", text |-> order[i]]]
                  \o [i \in 1..Len(surplus) |-> [kind |-> "delete", id |-> surplus[i]]]
    IN  keyword_writes(db, image_id, writes, 1, failAt)

add_keyword_to_image(db, image_id, keyword, fails) ==
    LET word == Trim(keyword)
        k == get_or_create(db.keywords, word)
    IN  IF word = <<>> THEN [db |-> db, ok |-> TRUE]
        ELSE IF fails THEN [db |-> [db EXCEPT !.keywords = k.keywords], ok |-> FALSE]
        ELSE [db |-> [keywords |-> k.keywords,
                      image_keywords |->
                          insert_or_ignore(db.image_keywords, image_id, k.id)],
              ok |-> TRUE]

remove_keyword_from_image(db, image_id, keyword) ==
    IF \E i \in 1..Len(db.keywords) : db.keywords[i] = keyword
    THEN [db |-> [db EXCEPT !.image_keywords =
                      ImageKeyword_delete(db.image_keywords, image_id,
                          CHOOSE i \in 1..Len(db.keywords) : db.keywords[i] = keyword)],
          ok |-> TRUE]
    ELSE [db |-> db, ok |-> TRUE]

VARIABLES
    kwdb,            \* the tables keywords and image_keywords
    kwcall           \* the last service call: the entries it was given, what it found, how it ended

keywordVars == <<kwdb, kwcall>>

\* the texts assigned to an image
AssignedTexts(db, image_id) ==
    {db.keywords[id] : id \in list_keywords_for_image(db, image_id)}

NoKeywordCall ==
    [op |-> "none", image_id |-> "img1", entries |-> {}, before |-> {},
     ok |-> TRUE, calls |-> 0, faults |-> 0]

KeywordInit ==
    /\ kwdb = [keywords |-> <<>>, image_keywords |-> <<>>]
    /\ kwcall = NoKeywordCall

KeywordCall(op, image_id, keywords, r, faulty) ==
    /\ kwcall.calls < MaxKeywordCalls
    /\ faulty => kwcall.faults < MaxKeywordFaults
    /\ kwdb' = r.db
    /\ kwcall' = [op |-> op, image_id |-> image_id,
                  entries |-> {keywords[i] : i \in 1..Len(keywords)},
                  before |-> AssignedTexts(kwdb, image_id), ok |-> r.ok,
                  calls |-> kwcall.calls + 1,
                  faults |-> kwcall.faults + (IF faulty THEN 1 ELSE 0)]

UpdateKeywords(image_id, keywords, failAt) ==
    \E order \in Orders(update_missing(kwdb, image_id, keywords)) :
        /\ failAt <= Len(order) + Cardinality(update_surplus(kwdb, image_id, keywords))
        /\ KeywordCall("update_keywords", image_id, keywords,
                       update_keywords(kwdb, image_id, keywords, order, failAt),
                       failAt > 0)

AddKeywordToImage(image_id, keyword, fails) ==
    /\ fails => Trim(keyword) # <<>>
    /\ KeywordCall("add_keyword_to_image", image_id, <<keyword>>,
                   add_keyword_to_image(kwdb, image_id, keyword, fails), fails)

RemoveKeywordFromImage(image_id, keyword) ==
    KeywordCall("remove_keyword_from_image", image_id, <<keyword>>,
                remove_keyword_from_image(kwdb, image_id, keyword), FALSE)

\* -------------------------------------------------- edits and collections
\* CatalogService::apply_edits on the table edits (one row per image_id) and
\* Collection::add_image on the table collection_images (primary key
\* (collection_id, image_id)); rows are kept in insertion order.

MaxStoreCalls == 3
MaxStoreFaults == 1

StoreImages == {"img1", "img2"}
StoreCollections == {"c1", "c2"}

NoValue == "null"

\* the parameters of an Edits value: a number, and a structured one
EditInputs ==
    [exposure : {NoValue, "0.25", "0.75"}, crop_json : {NoValue, "crop"}]

\* serde_json::to_string of the structured values in use
JsonText == ("crop" :> "{\"crop\":1}")

\* (mutant) a second call for an image keeps the row it finds
apply_edits_do_nothing(rows, image_id, edits) ==
    IF \E i \in 1..Len(rows) : rows[i].image_id = image_id THEN rows
    ELSE Append(rows, [image_id |-> image_id, exposure |-> edits.exposure,
                       crop_json |-> IF edits.crop_json = NoValue THEN NoValue
                                     ELSE JsonText[edits.crop_json]])

\* INSERT INTO edits ... ON CONFLICT(image_id) DO UPDATE SET every parameter;
\* a structured parameter is stored as its JSON text
apply_edits(rows, image_id, edits) ==
    LET to_json(v) == IF v = NoValue THEN NoValue ELSE JsonText[v]
        row == [image_id |-> image_id, exposure |-> edits.exposure,
                crop_json |-> to_json(edits.crop_json)]
    IN  IF \E i \in 1..Len(rows) : rows[i].image_id = image_id
        THEN [i \in 1..Len(rows) |-> IF rows[i].image_id = image_id THEN row ELSE rows[i]]
        ELSE Append(rows, row)

\* Collection::add_image: MAX(position) of the collection plus one, then
\* INSERT OR REPLACE, which deletes the row of the same key first
add_image(rows, collection_id, image_id) ==
    LET positions == {rows[i].position :
                        i \in {j \in 1..Len(rows) : rows[j].collection_id = collection_id}}
        next_position ==
            (IF positions = {} THEN 0
             ELSE CHOOSE p \in positions : \A q \in positions : q <= p) + 1
        kept == SelectSeq(rows, LAMBDA r :
                    ~(r.collection_id = collection_id /\ r.image_id = image_id))
    IN  Append(kept, [collection_id |-> collection_id, image_id |-> image_id,
                      position |-> next_position])

\* ------------------------------------------------------ full-text indexes
\* db/search.rs rebuild_fts.  A catalog file, as far as the rebuild goes: the
\* row ids of keywords, images and folders, which fts_* tables exist, and the
\* rowids each index holds.
FtsTables == {"keywords", "images", "folders"}

FtsFile(base, indexed) == [base |-> base, fts_tables |-> FtsTables, fts |-> indexed]

SeededBase == [t \in FtsTables |-> IF t = "keywords" THEN {1, 2} ELSE {1}]

\* indexes that are current, empty, or hold a row that is gone
FtsFiles ==
    { FtsFile(SeededBase, SeededBase),
      FtsFile(SeededBase, [t \in FtsTables |-> {}]),
      FtsFile(SeededBase, [t \in FtsTables |-> {3}]) }

FtsFailures == {"none", "begin", "ddl", "keywords", "images", "folders", "commit"}

\* rebuild_fts with the statement named by `fails` returning an error: every
\* statement is followed by `?`, and nothing but the final COMMIT ends the
\* transaction
rebuild_fts(c, fails) ==
    LET began == begin_immediate(c)
        ddl == exec(began, [began.view EXCEPT !.fts = [t \in FtsTables |-> {}]])
        fill(cn, t) == exec(cn, [cn.view EXCEPT !.fts[t] = cn.view.base[t]])
        kw == fill(ddl, "keywords")
        im == fill(kw, "images")
        fo == fill(im, "folders")
    IN  IF c.tx \/ fails = "begin" THEN [c |-> c, ok |-> FALSE]
        ELSE IF fails = "ddl"
        THEN [c |-> exec(began, [began.view EXCEPT
                                    !.fts_tables = @ \ {"keywords"},
                                    !.fts["keywords"] = {}]),
              ok |-> FALSE]
        ELSE IF fails = "keywords" THEN [c |-> ddl, ok |-> FALSE]
        ELSE IF fails = "images" THEN [c |-> kw, ok |-> FALSE]
        ELSE IF fails = "folders" THEN [c |-> im, ok |-> FALSE]
        ELSE IF fails = "commit" THEN [c |-> fo, ok |-> FALSE]
        ELSE [c |-> commit(fo), ok |-> TRUE]

VARIABLES
    store            \* the tables edits and collection_images, the full-text
                     \* indexes with their connection, and the calls made

storeVars == <<store>>

\* no apply_edits call has succeeded for the image yet
NoEdits == [exposure |-> "unset", crop_json |-> "unset"]

StoreOn(file) ==
    [edits |-> <<>>, applied |-> [i \in StoreImages |-> NoEdits],
     collection_images |-> <<>>, conn |-> Connection(file), pre |-> Connection(file),
     calls |-> 0, faults |-> 0, last |-> "none"]

StoreIdle ==
    store = StoreOn(FtsFile([t \in FtsTables |-> {}], [t \in FtsTables |-> {}]))

StoreInit == store \in {StoreOn(file) : file \in FtsFiles}

StoreCall(op, fails) ==
    /\ store.calls < MaxStoreCalls
    /\ fails => store.faults < MaxStoreFaults

\* apply_edits; `fails`: the statement returns an error and changes nothing
ApplyEdits(image_id, edits, fails) ==
    /\ StoreCall("apply_edits", fails)
    /\ store' = [store EXCEPT
          !.edits = IF fails THEN @ ELSE apply_edits(@, image_id, edits),
          !.applied[image_id] = IF fails THEN @ ELSE edits,
          !.calls = @ + 1, !.faults = IF fails THEN @ + 1 ELSE @,
          !.last = IF fails THEN "apply_edits failed" ELSE "apply_edits"]

\* rebuild_fts on the catalog's connection
RebuildFts(fails) ==
    /\ StoreCall("rebuild_fts", fails # "none")
    /\ store.conn.tx => fails = "none"
    /\ LET r == rebuild_fts(store.conn, fails)
       IN  /\ fails # "none" => ~r.ok
           /\ store' = [store EXCEPT
                 !.conn = r.c, !.pre = store.conn,
                 !.calls = @ + 1, !.faults = IF fails # "none" THEN @ + 1 ELSE @,
                 !.last = IF r.ok THEN "rebuild_fts" ELSE "rebuild_fts failed"]

\* Collection::add_image; `fails`: the SELECT or the INSERT returns an error
AddImage(collection_id, image_id, fails) ==
    /\ StoreCall("add_image", fails)
    /\ store' = [store EXCEPT
          !.collection_images = IF fails THEN @ ELSE add_image(@, collection_id, image_id),
          !.calls = @ + 1, !.faults = IF fails THEN @ + 1 ELSE @,
          !.last = IF fails THEN "add_image failed" ELSE "add_image"]

\* ---------------------------------------------------- the tables' rows
\* The entity layer (crates/catalog/src/db) on a catalog opened through
\* CatalogDb::open, which runs initialize_schema and so enables foreign-key
\* enforcement on the connection (schema.rs:25).  A row of a table that
\* belongs to an image is modelled by the image id it references.

\* ids the folders and images tables hand out, rows of the history log
MaxFolderId == 2
MaxImageId == 2
MaxHistory == 2

FolderIds == 1..MaxFolderId
ImageIds == 1..MaxImageId
\* two different snapshots of edit parameters
Snapshots == {"a", "b"}

VARIABLES
    crud             \* the rows of folders, images, the tables that reference
                     \* images, and the edit_history log; the last call made

crudVars == <<crud>>

NoCrudCall == [op |-> "none", ok |-> TRUE, deleted |-> {}, had |-> {}]

EmptyTables ==
    [folders |-> {}, images |-> {}, image_keywords |-> {}, edits |-> {},
     thumbnails |-> {}, previews |-> {}, edit_history |-> <<>>, last |-> NoCrudCall]

CrudIdle == crud = EmptyTables

CrudInit == crud = EmptyTables

image_ids(t) == {r.id : r \in t.images}

\* image ids some row of a dependent table references
referenced(t) == t.image_keywords \cup t.edits \cup t.thumbnails \cup t.previews

\* (mutant) the dependent tables declare no delete action
on_delete_cascade_undeclared(t, ids) == t

\* `REFERENCES images(id) ON DELETE CASCADE` of image_keywords, edits,
\* thumbnails and previews: deleting image rows deletes the rows that
\* reference them.
on_delete_cascade(t, ids) ==
    [t EXCEPT !.image_keywords = @ \ ids, !.edits = @ \ ids,
              !.thumbnails = @ \ ids, !.previews = @ \ ids]

\* Folder::insert: the table hands out an id no row has
Folder_insert(t, id) == [t EXCEPT !.folders = @ \cup {id}]

\* Image::insert; images.folder_id REFERENCES folders(id), so the statement
\* fails when the folder does not exist
Image_insert(t, id, folder_id) ==
    IF folder_id \in t.folders
    THEN [t EXCEPT !.images = @ \cup {[id |-> id, folder_id |-> folder_id]}]
    ELSE t

\* insert of ImageKeyword, Edit, Thumbnail or Preview for an image; the
\* table's image_id REFERENCES images(id), so the statement fails when the
\* image does not exist
Dependent_insert(t, table, image_id) ==
    IF image_id \in image_ids(t)
    THEN [t EXCEPT ![table] = @ \cup {image_id}]
    ELSE t

\* Image::delete: `DELETE FROM images WHERE id = ?1`
Image_delete(t, id) ==
    on_delete_cascade([t EXCEPT !.images = {r \in @ : r.id # id}], {id})

\* Folder::delete: `DELETE FROM folders WHERE id = ?1`; images.folder_id is
\* declared ON DELETE CASCADE, so the folder's images go with it, and their
\* dependent rows with them
Folder_delete(t, id) ==
    LET gone == {r.id : r \in {x \in t.images : x.folder_id = id}}
    IN  on_delete_cascade(
            [t EXCEPT !.folders = @ \ {id},
                      !.images = {r \in @ : r.folder_id # id}], gone)

\* CatalogService::remove_image: four statements on the connection, each
\* committed on its own; `failAt` is the statement that returns an error
\* (0: none), after which `?` returns.  ImageKeyword::delete_for_image is
\* not among the sources; it deletes the keyword links of the image.
remove_image(t, image_id, failAt) ==
    LET t1 == [t EXCEPT !.image_keywords = @ \ {image_id}]
        t2 == [t1 EXCEPT !.thumbnails = @ \ {image_id}]
        t3 == [t2 EXCEPT !.previews = @ \ {image_id}]
    IN  CASE failAt = 1 -> t
          [] failAt = 2 -> t1
          [] failAt = 3 -> t2
          [] failAt = 4 -> t3
          [] OTHER -> Image_delete(t3, image_id)

\* the call just made, the images whose rows it deleted, and those of them
\* that had an edits row
Called(t, op, ok) ==
    [t EXCEPT !.last = [op |-> op, ok |-> ok,
                        deleted |-> image_ids(crud) \ image_ids(t),
                        had |-> (image_ids(crud) \ image_ids(t)) \cap crud.edits]]

FolderInsert(id) ==
    /\ id \notin crud.folders
    /\ crud' = Called(Folder_insert(crud, id), "Folder::insert", TRUE)

ImageInsert(id, folder_id) ==
    /\ id \notin image_ids(crud)
    /\ crud' = Called(Image_insert(crud, id, folder_id), "Image::insert",
                      folder_id \in crud.folders)

DependentInsert(table, image_id) ==
    /\ image_id \notin crud[table]
    /\ crud' = Called(Dependent_insert(crud, table, image_id), "insert",
                      image_id \in image_ids(crud))

RemoveImage(image_id, failAt) ==
    crud' = Called(remove_image(crud, image_id, failAt), "remove_image", failAt = 0)

FolderDelete(id) ==
    crud' = Called(Folder_delete(crud, id), "Folder::delete", TRUE)

\* EditHistory::insert: a plain INSERT; the id is the table's next rowid
EditHistoryInsert(image_id, edits_json) ==
    /\ Len(crud.edit_history) < MaxHistory
    /\ LET ids == {crud.edit_history[i].id : i \in 1..Len(crud.edit_history)}
           id == IF ids = {} THEN 1 ELSE (CHOOSE m \in ids : \A n \in ids : n <= m) + 1
       IN  /\ id <= MaxHistory
           /\ crud' = Called([crud EXCEPT !.edit_history =
                                 Append(@, [id |-> id, image_id |-> image_id,
                                            edits_json |-> edits_json])],
                             "EditHistory::insert", TRUE)

\* EditHistory::update: `UPDATE edit_history SET image_id = ?1, edits_json = ?2,
\* created_at = ?3 WHERE id = ?4`
EditHistoryUpdate(id, image_id, edits_json) ==
    crud' = Called([crud EXCEPT !.edit_history =
                       [i \in 1..Len(@) |->
                           IF @[i].id = id
                           THEN [id |-> id, image_id |-> image_id,
                                 edits_json |-> edits_json]
                           ELSE @[i]]],
                   "EditHistory::update", TRUE)

\* EditHistory::delete: `DELETE FROM edit_history WHERE id = ?1`
EditHistoryDelete(id) ==
    crud' = Called([crud EXCEPT !.edit_history =
                       SelectSeq(@, LAMBDA r : r.id # id)],
                   "EditHistory::delete", TRUE)

\* what an import batch leaves alone
nonImportVars == <<schemaVars, textVars, scanVars, keywordVars, storeVars, crudVars>>

\* what a schema call leaves alone
nonSchemaVars == <<importVars, textVars, scanVars, keywordVars, storeVars, crudVars>>

\* what keyword parsing leaves alone
nonTextVars == <<importVars, schemaVars, scanVars, keywordVars, storeVars, crudVars>>

\* what a folder scan leaves alone
nonScanVars == <<importVars, schemaVars, textVars, keywordVars, storeVars, crudVars>>

\* what a keyword service call leaves alone
nonKeywordVars == <<importVars, schemaVars, textVars, scanVars, storeVars, crudVars>>

\* what a call on edits, collections or the full-text indexes leaves alone
nonStoreVars == <<importVars, schemaVars, textVars, scanVars, keywordVars, crudVars>>

\* what a call on the tables' rows leaves alone
nonCrudVars == <<importVars, schemaVars, textVars, scanVars, keywordVars, storeVars>>

ImportNext ==
    \/ \E cands \in CandidateLists, keywords \in KeywordInputs, method \in Methods,
          destination \in {NoDest, DestDir, SourceDir}, strategy \in Strategies :
            BeginImport(cands, keywords, method, destination, strategy)
            /\ UNCHANGED nonImportVars
    \/ \E method \in Methods, destination \in {NoDest, DestDir, SourceDir},
          mkdirFail \in BOOLEAN :
            BeginImportFails(method, destination, mkdirFail)
            /\ UNCHANGED nonImportVars
    \/ Cancel /\ UNCHANGED nonImportVars
    \/ ObserveCancel /\ UNCHANGED nonImportVars
    \/ (\E faults \in FaultSets : ProcessCandidate(faults)) /\ UNCHANGED nonImportVars
    \/ ReturnToCaller /\ UNCHANGED nonImportVars

SchemaNext ==
    \/ (\E fault \in {NoFault} \cup StepFaults \cup InitFaults :
            InitializeSchema(fault)) /\ UNCHANGED nonSchemaVars
    \/ (\E fault \in {NoFault} \cup StepFaults : RunMigrations(fault))
       /\ UNCHANGED nonSchemaVars
    \/ Reconnect /\ UNCHANGED nonSchemaVars

TextNext ==
    \/ ParseKeywords /\ UNCHANGED nonTextVars
    \/ NormalizeKeywords /\ UNCHANGED nonTextVars

ScanNext ==
    \/ StartScan /\ UNCHANGED nonScanVars
    \/ CancelScan /\ UNCHANGED nonScanVars
    \/ (\E e \in ScanFiles \cup {RootEntry} : WalkEntry(e)) /\ UNCHANGED nonScanVars
    \/ WalkCanceled /\ UNCHANGED nonScanVars
    \/ EmitAsset /\ UNCHANGED nonScanVars
    \/ EmitCanceled /\ UNCHANGED nonScanVars

KeywordNext ==
    \/ (\E image_id \in KeywordImages, keywords \in KeywordLists, failAt \in 0..(2 * MaxKeywordLen) :
            UpdateKeywords(image_id, keywords, failAt)) /\ UNCHANGED nonKeywordVars
    \/ (\E image_id \in KeywordImages, keyword \in KeywordTexts, fails \in BOOLEAN :
            AddKeywordToImage(image_id, keyword, fails)) /\ UNCHANGED nonKeywordVars
    \/ (\E image_id \in KeywordImages, keyword \in KeywordTexts :
            RemoveKeywordFromImage(image_id, keyword)) /\ UNCHANGED nonKeywordVars

StoreNext ==
    \/ (\E image_id \in StoreImages, edits \in EditInputs, fails \in BOOLEAN :
            ApplyEdits(image_id, edits, fails)) /\ UNCHANGED nonStoreVars
    \/ (\E collection_id \in StoreCollections, image_id \in StoreImages,
            fails \in BOOLEAN :
            AddImage(collection_id, image_id, fails)) /\ UNCHANGED nonStoreVars
    \/ (\E fails \in FtsFailures : RebuildFts(fails)) /\ UNCHANGED nonStoreVars

CrudNext ==
    \/ (\E id \in FolderIds : FolderInsert(id)) /\ UNCHANGED nonCrudVars
    \/ (\E id \in ImageIds, folder_id \in FolderIds : ImageInsert(id, folder_id))
       /\ UNCHANGED nonCrudVars
    \/ (\E table \in {"image_keywords", "edits", "thumbnails", "previews"},
            image_id \in ImageIds : DependentInsert(table, image_id))
       /\ UNCHANGED nonCrudVars
    \/ (\E image_id \in ImageIds, failAt \in 0..4 : RemoveImage(image_id, failAt))
       /\ UNCHANGED nonCrudVars
    \/ (\E id \in FolderIds : FolderDelete(id)) /\ UNCHANGED nonCrudVars
    \/ (\E image_id \in ImageIds, edits_json \in Snapshots :
            EditHistoryInsert(image_id, edits_json)) /\ UNCHANGED nonCrudVars
    \/ (\E id \in 1..MaxHistory, image_id \in ImageIds, edits_json \in Snapshots :
            EditHistoryUpdate(id, image_id, edits_json)) /\ UNCHANGED nonCrudVars
    \/ (\E id \in 1..MaxHistory : EditHistoryDelete(id)) /\ UNCHANGED nonCrudVars

vars == <<importVars, schemaVars, textVars, scanVars, keywordVars, storeVars, crudVars>>

\* the import workflow on an opened catalog
Init == ImportInit /\ SchemaIdle /\ TextIdle /\ ScanIdle /\ KeywordInit /\ StoreIdle /\ CrudIdle

Spec == Init /\ [][ImportNext]_vars

\* the schema manager on an arbitrary catalog file, no import running
InitMig == ImportInit /\ SchemaInit /\ TextIdle /\ ScanIdle /\ KeywordInit /\ StoreIdle /\ CrudIdle

SpecMig == InitMig /\ [][SchemaNext]_vars

\* keyword text on its way from the text field to the import
InitText == ImportInit /\ SchemaIdle /\ TextInit /\ ScanIdle /\ KeywordInit /\ StoreIdle /\ CrudIdle

SpecText == InitText /\ [][TextNext]_vars

\* a folder scan with its cancellation flag
InitScan == ImportInit /\ SchemaIdle /\ TextIdle /\ ScanInit /\ KeywordInit /\ StoreIdle /\ CrudIdle

SpecScan == InitScan /\ [][ScanNext]_vars

\* keyword service calls on a catalog with two images
InitKeywords == ImportInit /\ SchemaIdle /\ TextIdle /\ ScanIdle /\ KeywordInit /\ StoreIdle /\ CrudIdle

SpecKeywords == InitKeywords /\ [][KeywordNext]_vars

\* calls on edits, collections and the full-text indexes of one catalog
InitStore ==
    ImportInit /\ SchemaIdle /\ TextIdle /\ ScanIdle /\ KeywordInit /\ StoreInit
        /\ CrudIdle

SpecStore == InitStore /\ [][StoreNext]_vars

\* entity-layer calls on the rows of one catalog
InitCrud ==
    ImportInit /\ SchemaIdle /\ TextIdle /\ ScanIdle /\ KeywordInit /\ StoreIdle
        /\ CrudInit

SpecCrud == InitCrud /\ [][CrudNext]_vars

\* ------------------------------------------------------- import properties
Last(seq) == seq[Len(seq)]

ReportTotal == report.imported + Len(report.duplicates) + Len(report.failed)

CandidatePaths(c) == {c.raw_path, c.jpeg_path} \ {NoPath}

LastTarget == Join(batch.dest_dir, FileName(primary_path(last.cand)))

CopyFailed == last.events \cap {"copy_raw", "copy_jpeg", "source_missing"} # {}

\* C1: while only the Skip policy has been used, no two image rows share an
\* original_path or a file_hash; and a candidate whose content is already
\* cataloged ends as a duplicate by hash (its primary path appended to
\* report.duplicates) without adding a row.
C1_NoDoubleImport ==
    /\ hist.onlySkip =>
         \A i, j \in 1..Len(images) :
             i # j => /\ images[i].original_path # images[j].original_path
                      /\ images[i].file_hash # images[j].file_hash
    /\ (last.status = "next" /\ batch.strategy = "Skip" /\ last.hashKnown) =>
         /\ last.outcomes = <<"dup_hash">>
         /\ report.duplicates # <<>>
         /\ Last(report.duplicates) = primary_path(last.cand)
         /\ Len(images) = last.rows

\* An unchanged file, already cataloged under its own path, was handed to an
\* Add batch a second time.
C1_Witness ==
    /\ hist.onlySkip
    /\ batch.method = "Add"
    /\ last.status = "next"
    /\ last.hashKnown
    /\ last.targetKnown
    /\ last.outcomes = <<"dup_hash">>
    /\ Len(images) = 1

\* Under Skip no two rows share an original_path, and the only content two
\* rows ever share is that of a file emptied by a copy onto itself.
OnlyEmptiedFilesShareHash ==
    hist.onlySkip =>
        \A i, j \in 1..Len(images) :
            i # j => /\ images[i].original_path # images[j].original_path
                     /\ images[i].file_hash = images[j].file_hash
                            => images[i].file_hash = Blake3(Truncated)

\* C2: when a batch has returned, every candidate has exactly one outcome
\* (imported, duplicate or failed), or none because the batch was canceled
\* before reaching it.
C2_ExactlyOneOutcome ==
    pc \in {"done", "error"} =>
        \A i \in 1..Len(batch.candidates) :
            \/ i <= Len(outcomes) /\ Len(outcomes[i]) = 1
            \/ i > Len(outcomes) /\ report.canceled

C5_MoveImport ==
    ( /\ last.status = "next"
      /\ batch.method = "Move"
      /\ batch.dest_dir = DestDir
      /\ last.outcomes # <<>>
      /\ Last(last.outcomes) = "imported"
      /\ "remove_source" \notin last.events ) =>
        /\ \A p \in CandidatePaths(last.cand) :
               /\ fs[p] = Absent
               /\ fs[Join(batch.dest_dir, FileName(p))] # Absent
        /\ Len(images) = last.rows + 1
        /\ Last(images).original_path = LastTarget

\* A RAW+JPEG pair was moved into the empty destination folder.
C5_Witness ==
    /\ last.status = "next"
    /\ batch.method = "Move"
    /\ batch.dest_dir = DestDir
    /\ last.cand = Candidate(RawA, JpgA)
    /\ last.outcomes = <<"imported">>
    /\ last.events = {}
    /\ last.rows = 0

\* C6: when a Copy or Move candidate ends as failed, every destination file
\* written for it is gone again (removals that themselves failed aside).
C6_FailedPlacementRolledBack ==
    ( /\ last.status = "next"
      /\ batch.method \in {"Copy", "Move"}
      /\ last.outcomes # <<>>
      /\ Last(last.outcomes) = "failed"
      /\ "cleanup" \notin last.events ) =>
        \A p \in last.copied : fs[p] = Absent

\* C7: a hashing, copy, catalog-insert, thumbnail or keyword failure of a
\* candidate is passed to on_error, the first three are also listed in
\* report.failed, and the batch goes on (no Err return).
C7_PerItemFailureContinues ==
    ( /\ last.status # "none"
      /\ last.events \cap {"hash", "copy_raw", "copy_jpeg", "source_missing",
                           "insert", "thumb", "keyword"} # {} ) =>
        /\ last.status = "next"
        /\ pc # "error"
        /\ last.errs # {}
        /\ last.events \cap {"hash", "copy_raw", "copy_jpeg", "source_missing",
                             "insert"} # {}
             => "failed" \in {last.outcomes[i] : i \in 1..Len(last.outcomes)}

\* ------------------------------------------------------- schema properties
\* C8: a run of the built-in migrations that returns Ok on a catalog at version
\* v, 1 <= v <= target, ends at the target having applied exactly the steps
\* v -> v+1, ..., target-1 -> target in that order; with v = target no step is
\* applied and run_migrations leaves the catalog as it was.
C8_MigrationsReachTarget ==
    ( /\ call.op \in {"run_migrations", "initialize_schema"}
      /\ call.result = "ok"
      /\ call.pre.view.version \in 1..TARGET_SCHEMA_VERSION ) =>
        LET v == call.pre.view.version
        IN  /\ current_schema_version_for_conn(catalog) = TARGET_SCHEMA_VERSION
            /\ call.applied = [i \in 1..(TARGET_SCHEMA_VERSION - v) |-> v + i]
            /\ catalog.view.steps = call.pre.view.steps \o call.applied
            /\ ~catalog.tx => catalog.stored.version = TARGET_SCHEMA_VERSION
            /\ (v = TARGET_SCHEMA_VERSION /\ call.op = "run_migrations")
                   => catalog = call.pre

\* run_migrations took a catalog from version 2 to the target.
C8_Witness ==
    /\ call.op = "run_migrations"
    /\ call.result = "ok"
    /\ call.pre.view.version = 2
    /\ call.applied = <<3, 4>>
    /\ catalog.stored.version = TARGET_SCHEMA_VERSION

\* C9: when the SQL of a step fails, the call returns Err and the schema version,
\* as the connection reads it and as stored, is the version that step started
\* from.
C9_FailedStepKeepsVersion ==
    call.sqlFailedAt # 0 =>
        /\ call.result \notin {"ok", "none"}
        /\ current_schema_version_for_conn(catalog) = call.sqlFailedAt
        /\ catalog.stored.version = call.sqlFailedAt

\* From version 1, step 1 -> 2 was committed and the SQL of step 2 -> 3 failed.
C9_Witness ==
    /\ call.op = "run_migrations"
    /\ call.pre.view.version = 1
    /\ call.sqlFailedAt = 2
    /\ call.applied = <<2>>
    /\ call.result = "sql"
    /\ ~catalog.tx

\* C10: no initialize_schema or run_migrations call, and no reconnect, lowers
\* the stored schema_version, and none raises it above the target.
C10_VersionMonotoneBounded ==
    [][ /\ catalog'.stored.version >= catalog.stored.version
        /\ catalog.stored.version <= TARGET_SCHEMA_VERSION
             => catalog'.stored.version <= TARGET_SCHEMA_VERSION ]_vars

\* initialize_schema brought a file without a version row up to the target.
C10_Witness ==
    /\ call.op = "initialize_schema"
    /\ call.pre.stored.version = 0
    /\ catalog.stored.version = TARGET_SCHEMA_VERSION
    /\ schemaHist.calls > 1

\* C11: initialize_schema on a catalog whose schema_version is above the target
\* returns Err, commits no migration step and leaves schema_version, the steps
\* in effect and last_opened as they were, for the connection and as stored.
C11_NewerCatalogRefused ==
    ( /\ call.op = "initialize_schema"
      /\ call.pre.stored.version > TARGET_SCHEMA_VERSION ) =>
        /\ call.result \notin {"ok", "none"}
        /\ call.applied = <<>>
        /\ catalog.view.version = call.pre.view.version
        /\ catalog.stored.version = call.pre.stored.version
        /\ catalog.stored.steps = call.pre.stored.steps
        /\ catalog.view.opened = call.pre.view.opened
        /\ catalog.stored.opened = call.pre.stored.opened

\* initialize_schema met a catalog one version ahead and said so.
C11_Witness ==
    /\ call.op = "initialize_schema"
    /\ call.pre.stored.version = TARGET_SCHEMA_VERSION + 1
    /\ call.result = "newer"
    /\ catalog = call.pre

\* C12: when a step inside migrate_legacy_schema fails, initialize_schema returns
\* Err and the stored catalog is exactly what it was before the call; unless
\* the ROLLBACK itself failed, the connection too reads what it read before
\* and holds no open transaction.
C12_LegacyAllOrNothing ==
    ( /\ call.op = "initialize_schema"
      /\ is_legacy_schema(call.pre)
      /\ "legacy" \in call.events ) =>
        /\ call.result = "legacy"
        /\ catalog.stored = call.pre.stored
        /\ "legacy_rollback" \notin call.events => catalog = call.pre

\* A legacy file whose migration failed part-way and was rolled back.
C12_Witness ==
    /\ call.op = "initialize_schema"
    /\ call.pre.stored = LegacyFile
    /\ call.events = {"legacy"}
    /\ call.result = "legacy"
    /\ catalog = Connection(LegacyFile)

\* C13: initialize_schema on an empty database, nothing failing under it,
\* returns Ok and leaves a catalog at the latest schema version, with every
\* built-in step applied, the version pragma equal to it, and no folder and no
\* image row.
C13_FreshCatalog ==
    ( /\ call.op = "initialize_schema"
      /\ call.pre = Connection(EmptyFile)
      /\ call.events = {} ) =>
        /\ call.result = "ok"
        /\ ~catalog.tx
        /\ catalog.stored = catalog.view
        /\ catalog.stored.version = LATEST_SCHEMA_VERSION
        /\ catalog.stored.user_version = LATEST_SCHEMA_VERSION
        /\ catalog.stored.steps = [i \in 1..Len(MIGRATIONS) |-> MIGRATIONS[i].to]
        /\ catalog.stored.images = {}
        /\ catalog.stored.folders = <<>>

\* An empty database was initialized as the first call on it.
C13_Witness ==
    /\ call.op = "initialize_schema"
    /\ call.pre = Connection(EmptyFile)
    /\ call.result = "ok"
    /\ schemaHist.calls = 1
    /\ catalog.stored.opened = 1
    /\ catalog.stored.images = {}

\* C14: after every initialize_schema or run_migrations call, Ok or Err, the
\* stored PRAGMA user_version equals the stored catalog_metadata.schema_version
\* (0 standing for a file without a version row).
C14_UserVersionMirrors ==
    call.op # "none" => catalog.stored.user_version = catalog.stored.version

\* ------------------------------------------------------- keyword properties
NoRepeats(seq) == \A i, j \in 1..Len(seq) : i # j => seq[i] # seq[j]

\* C15: the list parse_keywords returns holds only trimmed, non-empty pieces
\* free of commas and newlines, holds no keyword twice, and for
\* "  a, b\nb ,,c " is ["a", "b", "c"].
C15_ParseKeywords ==
    text.stage = "parsed" =>
        /\ \A i \in 1..Len(text.keywords) :
               /\ text.keywords[i] # <<>>
               /\ Trim(text.keywords[i]) = text.keywords[i]
               /\ ~InSeq(",", text.keywords[i])
               /\ ~InSeq("\n", text.keywords[i])
        /\ NoRepeats(text.keywords)
        /\ text.raw = ExampleText => text.keywords = << <<"a">>, <<"b">>, <<"c">> >>

\* ------------------------------------------------------- scan properties
IsRawFile(e) ==
    /\ e.kind = "file"
    /\ extension(entry_path(e)) # NoExtension
    /\ to_ascii_lowercase(<<".">> \o extension(entry_path(e))) \in SUPPORTED_RAW_EXTENSIONS

IsRasterFile(e) ==
    /\ e.kind = "file"
    /\ to_ascii_lowercase(extension(entry_path(e))) \in SUPPORTED_RASTER_EXTENSIONS

\* the folder and the stem, ignoring case, of a path
PairingKey(path) == <<path[1], to_ascii_lowercase(file_stem(path))>>

ScanAssets == {scan.assets[i] : i \in 1..Len(scan.assets)}

\* the candidates made of files of the folder and stem of `e`
CandidatesFor(e) ==
    { c \in ScanAssets :
        \E p \in CandidatePaths(c) : PairingKey(p) = PairingKey(entry_path(e)) }

WalkComplete == scan.phase \in {"emit", "done"} /\ scan.pending = {}

\* C16: after a complete walk, a RAW file and a raster file of one folder
\* whose stems are equal ignoring case make exactly one candidate, a
\* RawWithJpeg with both paths set to a RAW and a raster file of that folder
\* and stem; supported files of different folders are in different
\* candidates; a file with an unsupported extension, without extension, or a
\* directory is in no candidate; an uncanceled scan returns and emits exactly
\* these candidates.
C16_ScanPairsRawAndJpeg ==
    WalkComplete =>
        /\ \A r, j \in scan.dir :
             ( /\ IsRawFile(r) /\ IsRasterFile(j) /\ r.parent = j.parent
               /\ PairingKey(entry_path(r)) = PairingKey(entry_path(j)) ) =>
                 /\ Cardinality(CandidatesFor(r)) = 1
                 /\ Cardinality({i \in 1..Len(scan.assets) :
                                     scan.assets[i] \in CandidatesFor(r)}) = 1
                 /\ \A c \in CandidatesFor(r) :
                      /\ c.asset_type = "RawWithJpeg"
                      /\ \E f \in scan.dir :
                           /\ IsRawFile(f) /\ c.raw_path = entry_path(f)
                           /\ PairingKey(entry_path(f)) = PairingKey(entry_path(r))
                      /\ \E f \in scan.dir :
                           /\ IsRasterFile(f) /\ c.jpeg_path = entry_path(f)
                           /\ PairingKey(entry_path(f)) = PairingKey(entry_path(r))
                      /\ ( /\ Cardinality({f \in scan.dir : IsRawFile(f) /\
                                 PairingKey(entry_path(f)) = PairingKey(entry_path(r))}) = 1
                           /\ Cardinality({f \in scan.dir : IsRasterFile(f) /\
                                 PairingKey(entry_path(f)) = PairingKey(entry_path(r))}) = 1 )
                         => c = ScanCandidate(entry_path(r), entry_path(j), "RawWithJpeg")
        /\ \A a, b \in scan.dir :
             ( /\ IsRawFile(a) \/ IsRasterFile(a)
               /\ IsRawFile(b) \/ IsRasterFile(b)
               /\ a.parent # b.parent ) =>
                 /\ CandidatesFor(a) # {} /\ CandidatesFor(b) # {}
                 /\ CandidatesFor(a) \cap CandidatesFor(b) = {}
                 /\ \A c \in ScanAssets :
                      ~(entry_path(a) \in CandidatePaths(c) /\ entry_path(b) \in CandidatePaths(c))
        /\ \A e \in scan.dir \cup {RootEntry} :
             (~IsRawFile(e) /\ ~IsRasterFile(e)) =>
                 \A c \in ScanAssets : entry_path(e) \notin CandidatePaths(c)
        /\ (scan.phase = "done" /\ scan.canceledAt = NoScanCancel) =>
               scan.out = scan.assets /\ scan.emitted = scan.assets

\* A/D.NEF, A/d.jpg and A/n.txt were scanned to the end: one RawWithJpeg
C16_Witness ==
    /\ scan.phase = "done"
    /\ scan.dir = { DirEntry("file", <<"A">>, <<"D", ".", "N", "E", "F">>),
                    DirEntry("file", <<"A">>, <<"d", ".", "j", "p", "g">>),
                    DirEntry("file", <<"A">>, <<"n", ".", "t", "x", "t">>) }
    /\ scan.out = << ScanCandidate(<< <<"A">>, <<"D", ".", "N", "E", "F">> >>,
                                   << <<"A">>, <<"d", ".", "j", "p", "g">> >>,
                                   "RawWithJpeg") >>
    /\ scan.emitted = scan.out

\* A/D.NEF and B/D.JPG were scanned to the end: two candidates
C16_WitnessFolders ==
    /\ scan.phase = "done"
    /\ scan.dir = { DirEntry("file", <<"A">>, <<"D", ".", "N", "E", "F">>),
                    DirEntry("file", <<"B">>, <<"D", ".", "J", "P", "G">>) }
    /\ Len(scan.out) = 2

\* C17: when a scan was canceled during its walk, every candidate discovered
\* before the cancellation was passed to on_candidate and is in the returned
\* list.
C17_CanceledWalkStillEmits ==
    (scan.phase = "done" /\ scan.canceledAt.phase = "walk") =>
        \A k \in scan.canceledAt.keys :
            /\ \E i \in 1..Len(scan.emitted) :
                   PairingKey(primary_path(scan.emitted[i])) = k
            /\ \E i \in 1..Len(scan.out) :
                   PairingKey(primary_path(scan.out[i])) = k

\* C18: when the flag is set at the start of a candidate, the step the loop
\* takes ends the batch: the call returns Ok with report.canceled set and
\* nothing else of the report, the files, the catalog rows, the thumbnails or
\* the keyword assignments changed, and no outcome recorded for that or any
\* later candidate; nothing changes afterwards until the caller has taken the
\* report.
C18_ObservedCancelStopsBatch ==
    [][ /\ (pc = "running" /\ cancel /\ idx < Len(batch.candidates)) =>
              /\ pc' = "done"
              /\ report' = [report EXCEPT !.canceled = TRUE]
              /\ idx' = idx /\ outcomes' = outcomes /\ Len(outcomes) = idx
              /\ UNCHANGED <<fs, images, folders, thumbnails, image_keywords>>
        /\ (pc = "done" /\ report.canceled) =>
              /\ pc' = "idle"
              /\ UNCHANGED <<fs, images, folders, thumbnails, image_keywords>>
      ]_vars

\* a Move batch of two canceled after its first candidate was imported: the
\* second candidate's source file is still in place and has no row
C18_Witness ==
    /\ pc = "done"
    /\ report.canceled
    /\ batch.method = "Move"
    /\ Len(batch.candidates) = 2
    /\ idx = 1
    /\ report.imported = 1
    /\ Len(images) = 1
    /\ primary_path(batch.candidates[2]) # NoPath
    /\ primary_path(batch.candidates[2]) # primary_path(batch.candidates[1])
    /\ fs[primary_path(batch.candidates[2])] # Absent

\* the handles in use: the view's scan_cancel and the clone the scan polls
FlagHandles == {flags.ui, flags.worker} \ {0}

\* C19: no step takes a canceled cell back or drops a cell; while a scan runs,
\* a cancel() through any handle is read as true through every handle, and
\* the poller's next step is the break of its loop: no further entry is
\* walked and no further candidate is emitted.
C19_FlagSharedMonotone ==
    [][ /\ Len(flags'.cells) >= Len(flags.cells)
        /\ \A c \in 1..Len(flags.cells) : flags.cells[c] => flags'.cells[c]
        /\ ( /\ scan.phase \in {"walk", "emit"}
             /\ \E h \in FlagHandles : CancellationFlag_is_canceled(flags.cells, h) ) =>
               /\ \A h \in FlagHandles : CancellationFlag_is_canceled(flags.cells, h)
               /\ scan'.phase \in {"emit", "done"} /\ scan'.phase # scan.phase
               /\ scan'.pending = scan.pending
               /\ scan'.map = scan.map
               /\ scan'.out = scan.out /\ scan'.emitted = scan.emitted
      ]_vars

\* a scan canceled between two candidates of its emit loop stopped there
C19_Witness ==
    /\ scan.phase = "done"
    /\ scan.canceledAt.phase = "emit"
    /\ Len(scan.assets) = 2
    /\ Len(scan.out) = 1
    /\ CancellationFlag_is_canceled(flags.cells, flags.worker)
    /\ flags.worker = flags.ui

\* ---------------------------------------------------- keyword properties
\* the assignments as <<image, keyword text>>, in row order
AssignmentsByText ==
    [i \in 1..Len(kwdb.image_keywords) |->
        <<kwdb.image_keywords[i].image_id,
          kwdb.keywords[kwdb.image_keywords[i].keyword_id]>>]

\* C20: after update_keywords returned Ok the image has exactly the trimmed,
\* non-empty texts of the list it was given; and after any calls of
\* update_keywords, add_keyword_to_image and remove_keyword_from_image,
\* failed ones included, no image has the same keyword assigned twice.
C20_UpdateKeywordsReconciles ==
    /\ (kwcall.op = "update_keywords" /\ kwcall.ok) =>
           AssignedTexts(kwdb, kwcall.image_id) =
               {Trim(entry) : entry \in kwcall.entries} \ {<<>>}
    /\ NoRepeats(AssignmentsByText)

\* update_keywords(image, [" n", " "]) on an image that had "d": "n" was
\* inserted, "d" removed, the blank dropped
C20_Witness ==
    /\ kwcall.op = "update_keywords"
    /\ kwcall.ok
    /\ kwcall.entries = { <<" ", "n">>, <<" ">> }
    /\ kwcall.before = { <<"d">> }
    /\ AssignedTexts(kwdb, kwcall.image_id) = { <<"n">> }

\* C21: however often ensure_folder was called with a path, the folders table
\* holds one row for it, and every image cataloged under that path refers to
\* that one row.
C21_EnsureFolderIdempotent ==
    /\ NoRepeats(folders)
    /\ \A i \in 1..Len(images) :
          /\ images[i].folder_id \in 1..Len(folders)
          /\ folders[images[i].folder_id] = parent_path(images[i].original_path)
    /\ \A i, j \in 1..Len(images) :
          parent_path(images[i].original_path) = parent_path(images[j].original_path)
              => images[i].folder_id = images[j].folder_id

\* two pictures of folder A were cataloged in place: one folder row, both
\* images refer to it
C21_Witness ==
    /\ Len(images) = 2
    /\ images[1].original_path = RawA
    /\ images[2].original_path = JpgA
    /\ folders = <<"A">>
    /\ images[1].folder_id = 1 /\ images[2].folder_id = 1

\* ------------------------------------------- edits and collections properties
EditRowsOf(image_id) ==
    {i \in 1..Len(store.edits) : store.edits[i].image_id = image_id}

\* C22: after any calls of apply_edits, failed ones included, an image has at
\* most one row in edits; it has one exactly when a call for it succeeded, and
\* the row's parameters are those of the latest such call, a structured one as
\* its JSON text.
C22_ApplyEditsUpserts ==
    \A image_id \in StoreImages :
        /\ Cardinality(EditRowsOf(image_id)) <= 1
        /\ (store.applied[image_id] = NoEdits) <=> (EditRowsOf(image_id) = {})
        /\ \A i \in EditRowsOf(image_id) :
              /\ store.edits[i].exposure = store.applied[image_id].exposure
              /\ store.edits[i].crop_json =
                     IF store.applied[image_id].crop_json = NoValue THEN NoValue
                     ELSE JsonText[store.applied[image_id].crop_json]

\* three successful apply_edits calls, two of them for the same image, whose
\* row holds exposure 0.75 and no crop
C22_Witness ==
    /\ store.calls = 3 /\ store.faults = 0
    /\ store.collection_images = <<>>
    /\ Len(store.edits) = 2
    /\ store.edits[1] = [image_id |-> "img1", exposure |-> "0.75", crop_json |-> NoValue]

\* C23: after any add_image calls the positions of a collection's members are
\* exactly 1..n for its n members, each position used once.
C23_PositionsDense ==
    \A collection_id \in StoreCollections :
        LET members == {i \in 1..Len(store.collection_images) :
                           store.collection_images[i].collection_id = collection_id}
        IN  /\ {store.collection_images[i].position : i \in members}
                   = 1..Cardinality(members)
            /\ \A i, j \in members :
                   store.collection_images[i].position
                       = store.collection_images[j].position => i = j

\* C24: a rebuild_fts that returned Ok left, committed, one index entry per
\* row of keywords, images and folders; one that returned an error left the
\* indexes as they were before the call and no transaction open.
C24_RebuildFtsAtomic ==
    /\ store.last = "rebuild_fts" =>
          /\ ~store.conn.tx
          /\ store.conn.stored = store.conn.view
          /\ store.conn.stored.fts_tables = FtsTables
          /\ store.conn.stored.fts = store.conn.stored.base
    /\ store.last = "rebuild_fts failed" =>
          /\ store.conn.stored = store.pre.stored
          /\ store.conn.view = store.pre.view
          /\ ~store.conn.tx

\* the half of C24 that the code keeps: Ok means rebuilt and committed, and a
\* failed call never changes what the file holds
RebuildFtsCommitsOrKeepsFile ==
    /\ store.last = "rebuild_fts" =>
          /\ ~store.conn.tx
          /\ store.conn.stored = store.conn.view
          /\ store.conn.stored.fts_tables = FtsTables
          /\ store.conn.stored.fts = store.conn.stored.base
    /\ store.last = "rebuild_fts failed" => store.conn.stored = store.pre.stored

\* the steps whose changes a catalog at its recorded version should hold
StepsUpTo(version) == [i \in 1..(version - 1) |-> i + 1]

\* C25: a run_migrations call on a connection with no transaction open, whose
\* catalog holds exactly the steps of its version, ends with no transaction
\* open, stored and seen by the connection: exactly the steps up to the
\* recorded version, which is the starting version raised by the steps the
\* call committed.
C25_StepsCommitWithVersion ==
    ( /\ call.op = "run_migrations"
      /\ ~call.pre.tx
      /\ call.pre.stored.version >= 1
      /\ call.pre.stored.steps = StepsUpTo(call.pre.stored.version) ) =>
        /\ ~catalog.tx
        /\ catalog.stored.steps = StepsUpTo(catalog.stored.version)
        /\ catalog.view.steps = StepsUpTo(catalog.view.version)
        /\ catalog.stored.version = call.pre.stored.version + Len(call.applied)

\* the part of C25 about what is committed: whatever fails, the stored
\* catalog holds exactly the steps of its stored version, and the steps
\* committed before the failure stay
CommittedStepsMatchVersion ==
    ( /\ call.op = "run_migrations"
      /\ ~call.pre.tx
      /\ call.pre.stored.version >= 1
      /\ call.pre.stored.steps = StepsUpTo(call.pre.stored.version) ) =>
        /\ catalog.stored.steps = StepsUpTo(catalog.stored.version)
        /\ catalog.stored.version = call.pre.stored.version + Len(call.applied)


\* C26: initialize_schema on a legacy-layout catalog, nothing failing under it,
\* returns Ok and leaves a committed catalog at the target schema version
\* without any legacy table, holding exactly one image row per legacy row:
\* same id, original_path the old file_path, and folder_id the id of the
\* folder row of the file's parent directory ("." for a bare file name).
C26_LegacyRowsCarriedOver ==
    ( /\ call.op = "initialize_schema"
      /\ ~call.pre.tx
      /\ is_legacy_schema(call.pre)
      /\ call.events = {} ) =>
        /\ call.result = "ok"
        /\ ~catalog.tx
        /\ catalog.stored = catalog.view
        /\ catalog.stored.version = TARGET_SCHEMA_VERSION
        /\ ~catalog.stored.legacy
        /\ catalog.stored.legacy_images = {}
        /\ {r.id : r \in catalog.stored.images}
               = {l.id : l \in call.pre.stored.legacy_images}
        /\ Cardinality(catalog.stored.images)
               = Cardinality(call.pre.stored.legacy_images)
        /\ \A l \in call.pre.stored.legacy_images :
               \E r \in catalog.stored.images :
                   /\ r.id = l.id
                   /\ r.original_path = l.file_path
                   /\ r.folder_id \in 1..Len(catalog.stored.folders)
                   /\ catalog.stored.folders[r.folder_id]
                          = (IF l.file_path[1] = "" THEN "." ELSE l.file_path[1])

\* A legacy file with pictures in two directories was migrated: the row with
\* id 3 is filed under the second folder row.
C26_Witness ==
    /\ call.op = "initialize_schema"
    /\ call.result = "ok"
    /\ is_legacy_schema(call.pre)
    /\ Cardinality(call.pre.stored.legacy_images) = 2
    /\ catalog.stored.folders = <<"B", "A">>
    /\ \E r \in catalog.stored.images : r.id = 3 /\ r.folder_id = 2

\* C27: when the loop body finds the candidate's content hash in the catalog,
\* the primary path is appended to report.duplicates. Under Skip that is all
\* the pass does: no file, row, folder, thumbnail or keyword changes and the
\* other report fields stay. Under ImportAnyway the pass goes on to placement,
\* the path check and cataloging: with nothing failing it ends as a duplicate
\* by path when the target is already cataloged, else with a new row for the
\* target.
C27_HashDuplicate ==
    [][ ( /\ pc = "running"
          /\ idx' = idx + 1
          /\ last'.hashKnown
          /\ last'.events \cap {"hash", "find_hash"} = {} ) =>
            LET primary == primary_path(batch.candidates[idx + 1]) IN
            /\ Len(report'.duplicates) > Len(report.duplicates)
            /\ report'.duplicates[Len(report.duplicates) + 1] = primary
            /\ Head(last'.outcomes) = "dup_hash"
            /\ batch.strategy = "Skip" =>
                  /\ last'.outcomes = <<"dup_hash">>
                  /\ report' = [report EXCEPT !.duplicates = Append(@, primary)]
                  /\ UNCHANGED <<fs, images, folders, thumbnails, image_keywords>>
            /\ batch.strategy = "ImportAnyway" =>
                  /\ last'.status = "next" => Len(last'.outcomes) = 2
                  /\ (last'.events = {} /\ last'.targetKnown) =>
                        /\ last'.outcomes[2] = "dup_path"
                        /\ images' = images
                  /\ (last'.events = {} /\ ~last'.targetKnown) =>
                        /\ last'.outcomes[2] = "imported"
                        /\ Len(images') = Len(images) + 1
                        /\ images'[Len(images')].original_path = last'.target
                        /\ report'.imported = report.imported + 1
      ]_vars

\* A picture cataloged in place is handed to a Copy batch under ImportAnyway:
\* listed as a duplicate by hash and cataloged again under the destination path.
C27_Witness ==
    /\ batch.strategy = "ImportAnyway"
    /\ batch.method = "Copy"
    /\ last.hashKnown
    /\ last.outcomes = <<"dup_hash", "imported">>
    /\ report.duplicates = <<primary_path(last.cand)>>
    /\ report.imported = 1
    /\ Len(images) = 2


\* C28: in a Move batch a pass of the loop body makes a source file of its
\* candidate disappear only when it ends with the candidate imported and its
\* row inserted; a pass that ends as duplicate or failed leaves every source
\* file of its candidate where it was, and so does every step that processes
\* no candidate (the cancellation and the poll that stops the loop).
C28_MoveKeepsSources ==
    [][ (pc = "running" /\ batch.method = "Move") =>
            /\ idx' = idx => fs' = fs
            /\ idx' = idx + 1 =>
                 \A p \in CandidatePaths(batch.candidates[idx + 1]) :
                     (fs[p] # Absent /\ fs'[p] = Absent) =>
                         /\ last'.outcomes # <<>>
                         /\ Last(last'.outcomes) = "imported"
                         /\ Len(images') = Len(images) + 1
      ]_vars

\* The same with a destination folder that is not the sources' own.
MoveElsewhereKeepsSources ==
    [][ (pc = "running" /\ batch.method = "Move" /\ batch.dest_dir = DestDir) =>
            /\ idx' = idx => fs' = fs
            /\ idx' = idx + 1 =>
                 \A p \in CandidatePaths(batch.candidates[idx + 1]) :
                     (fs[p] # Absent /\ fs'[p] = Absent) =>
                         /\ last'.outcomes # <<>>
                         /\ Last(last'.outcomes) = "imported"
                         /\ Len(images') = Len(images) + 1
      ]_vars


\* C29: while an Add batch runs, no step changes the file system (no file is
\* created, copied, overwritten or deleted), and a pass that ends with the
\* candidate imported adds one row whose original_path is the candidate's own
\* primary path.
C29_AddLeavesFilesInPlace ==
    [][ (pc = "running" /\ batch.method = "Add") =>
            /\ fs' = fs
            /\ ( /\ idx' = idx + 1
                 /\ last'.outcomes # <<>>
                 /\ Last(last'.outcomes) = "imported" ) =>
                   /\ Len(images') = Len(images) + 1
                   /\ images'[Len(images')].original_path
                          = primary_path(batch.candidates[idx + 1])
      ]_vars

\* A RAW+JPEG pair was added in place: one row for the RAW path, both files
\* where they were.
C29_Witness ==
    /\ batch.method = "Add"
    /\ last.cand = Candidate(RawA, JpgA)
    /\ last.outcomes = <<"imported">>
    /\ Last(images).original_path = RawA
    /\ fs[RawA] = "raw-a"
    /\ fs[JpgA] = "jpeg-a"
    /\ \A p \in Paths : parent_path(p) = DestDir => fs[p] = Absent

\* C30: when the catalog insertion fails for a Copy or Move candidate, every
\* file copied for it is removed again (unless that removal fails too), the
\* target path is appended to report.failed with the other report fields as
\* they were, no row is added, and the loop goes on: the call does not return
\* Err.
C30_InsertFailureRolledBack ==
    [][ ( /\ pc = "running"
          /\ batch.method \in {"Copy", "Move"}
          /\ idx' = idx + 1
          /\ "insert" \in last'.events ) =>
            /\ "cleanup" \notin last'.events =>
                   \A p \in last'.copied : fs'[p] = Absent
            /\ last'.copied # {}
            /\ Len(report'.failed) = Len(report.failed) + 1
            /\ Last(report'.failed)[1] = last'.target
            /\ report'.imported = report.imported
            /\ images' = images
            /\ last'.status = "next"
            /\ pc' \in {"running", "done"}
      ]_vars

\* The insertion failed for a copied RAW+JPEG pair; both copies are gone, the
\* sources are in place, and the loop went on to the next candidate.
C30_Witness ==
    /\ batch.method = "Copy"
    /\ batch.dest_dir = DestDir
    /\ last.cand = Candidate(RawA, JpgA)
    /\ last.events = {"insert"}
    /\ last.copied = {Join(DestDir, "x.nef"), Join(DestDir, "x.jpg")}
    /\ \A p \in last.copied : fs[p] = Absent
    /\ fs[RawA] # Absent
    /\ report.failed = << <<Join(DestDir, "x.nef"), "import failed">> >>
    /\ report.imported = 0
    /\ pc = "running"


\* C31: a pass of the loop body in which thumbnail/preview generation fails
\* ends like one in which it succeeds: the call does not return Err, the
\* candidate's row is inserted and stays, every batch keyword is assigned to
\* it, a Move has deleted the candidate's sources, and report.imported has
\* grown by one with the other report fields as they were.
C31_ThumbnailFailureHarmless ==
    [][ ( /\ pc = "running"
          /\ idx' = idx + 1
          /\ "thumb" \in last'.events ) =>
            /\ last'.status = "next"
            /\ Last(last'.outcomes) = "imported"
            /\ Len(images') = Len(images) + 1
            /\ images'[Len(images')].original_path = last'.target
            /\ \A k \in 1..Len(batch.keywords) :
                   <<Len(images'), batch.keywords[k]>> \in image_keywords'
            /\ batch.method = "Move" =>
                   \A p \in CandidatePaths(batch.candidates[idx + 1]) :
                       fs'[p] = Absent
            /\ report'.imported = report.imported + 1
            /\ report'.failed = report.failed
      ]_vars

\* The thumbnail of a moved JPEG could not be generated; the picture is
\* cataloged with its keyword, counted, and its source is gone.
C31_Witness ==
    /\ batch.method = "Move"
    /\ batch.dest_dir = DestDir
    /\ batch.keywords # <<>>
    /\ last.events = {"thumb"}
    /\ last.cand = Candidate(NoPath, JpgA)
    /\ last.outcomes = <<"imported">>
    /\ report.imported = 1
    /\ thumbnails = {}
    /\ <<1, batch.keywords[1]>> \in image_keywords
    /\ fs[JpgA] = Absent


\* C36: a pass of the loop body of a Copy or Move batch removes no file that
\* lay in the destination folder before the pass; after a pass that ends as a
\* duplicate by path, the file at the cataloged target path is there with the
\* content it had.
C36_DestinationFilesKept ==
    [][ ( /\ pc = "running"
          /\ batch.method \in {"Copy", "Move"}
          /\ idx' = idx + 1 ) =>
            /\ \A p \in Paths :
                   (parent_path(p) = batch.dest_dir /\ fs[p] # Absent /\ p \notin
                        CandidatePaths(batch.candidates[idx + 1]))
                       => fs'[p] # Absent
            /\ (last'.outcomes # <<>> /\ Last(last'.outcomes) = "dup_path")
                   => fs'[last'.target] = fs[last'.target]
      ]_vars

\* C38: when a batch has returned Ok(report), the catalog holds exactly
\* report.imported more image rows than when the batch began.
C38_RowsGrowByImported ==
    pc = "done" => Len(images) = hist.rowsAtStart + report.imported

\* A batch over two candidates returned Ok with one imported, one duplicate,
\* on a catalog that held a row before it.
C38_Witness ==
    /\ pc = "done"
    /\ hist.rowsAtStart = 1
    /\ report.imported = 1
    /\ Len(report.duplicates) = 1
    /\ Len(images) = 2


\* C34: at every point of a scan the list being returned is the sequence of
\* candidates passed to on_candidate so far, in the same order; no candidate
\* is delivered twice, and what was delivered is the leading part of the
\* sorted list scan_folder_for_import returned.
C34_ReturnedListIsStream ==
    /\ scan.out = scan.emitted
    /\ NoRepeats(scan.emitted)
    /\ Len(scan.emitted) <= Len(scan.assets)
    /\ scan.emitted = SubSeq(scan.assets, 1, Len(scan.emitted))

\* A scan of two folders ended having delivered and returned two candidates.
C34_Witness ==
    /\ scan.phase = "done"
    /\ Len(scan.emitted) = 2
    /\ scan.out = scan.emitted
    /\ scan.emitted[1] # scan.emitted[2]

\* C37: after a walk that went over every entry without a cancellation, each
\* file with a supported RAW or raster extension is the raw_path or jpeg_path
\* of exactly one candidate of the list scan_folder_for_import returns.
C37_NoSupportedFileDropped ==
    (WalkComplete /\ scan.canceledAt = NoScanCancel) =>
        \A e \in scan.dir :
            (IsRawFile(e) \/ IsRasterFile(e)) =>
                Cardinality({i \in 1..Len(scan.assets) :
                    entry_path(e) \in CandidatePaths(scan.assets[i])}) = 1

\* When no two raster files and no two RAW files of a folder share a stem,
\* no supported file is dropped.
NoSupportedFileDroppedUnlessShadowed ==
    ( /\ WalkComplete /\ scan.canceledAt = NoScanCancel
      /\ \A e, f \in scan.dir :
             ( /\ e # f
               /\ PairingKey(entry_path(e)) = PairingKey(entry_path(f))
               /\ IsRawFile(e) \/ IsRasterFile(e)
               /\ IsRawFile(f) \/ IsRasterFile(f) )
                 => IsRawFile(e) # IsRawFile(f) ) =>
        \A e \in scan.dir :
            (IsRawFile(e) \/ IsRasterFile(e)) =>
                Cardinality({i \in 1..Len(scan.assets) :
                    entry_path(e) \in CandidatePaths(scan.assets[i])}) = 1


\* C39: every step of the built-in list leads to a higher version and no two
\* start at the same one, so the loop of run_migrations_for_conn takes at most
\* one turn per step; a call applies steps of the list only, each at most
\* once, in strictly increasing version order, and returns Ok only with the
\* catalog at the target version, otherwise an error.
C39_MigrationsTerminateInOrder ==
    /\ \A i \in 1..Len(MIGRATIONS) :
           /\ MIGRATIONS[i].from < MIGRATIONS[i].to
           /\ \A j \in 1..Len(MIGRATIONS) :
                  i # j => MIGRATIONS[i].from # MIGRATIONS[j].from
    /\ call.op \in {"run_migrations", "initialize_schema"} =>
           /\ Len(call.applied) <= Len(MIGRATIONS)
           /\ \A i \in 1..Len(call.applied) :
                  /\ \E k \in 1..Len(MIGRATIONS) : MIGRATIONS[k].to = call.applied[i]
                  /\ \A j \in 1..Len(call.applied) :
                         i < j => call.applied[i] < call.applied[j]
           /\ call.result = "ok" =>
                  current_schema_version_for_conn(catalog) = TARGET_SCHEMA_VERSION
           /\ call.result # "ok" =>
                  call.result \in {"no_table", "newer", "missing_path", "begin",
                                   "sql", "rollback", "update", "pragma", "commit",
                                   "pragmas", "legacy", "base", "set_version",
                                   "set_pragma", "last_opened"}

\* run_migrations on a catalog at version 1 applied the three steps in order.
C39_Witness ==
    /\ call.op = "run_migrations"
    /\ call.pre.stored.version = 1
    /\ call.result = "ok"
    /\ call.applied = <<2, 3, 4>>
    /\ catalog.stored.version = TARGET_SCHEMA_VERSION

\* begin_import (main.rs:955-1096) hands each batch to the event loop as one
\* future, and import_images_with_callbacks contains no await: the future
\* completes in the poll that starts it, on the thread that also delivers the
\* import view's callbacks.  A batch therefore starts only when no other is
\* running, which is the guard pc = "idle" of BeginImport; the rows of the
\* batch in progress are those after hist.rowsAtStart.
\*
\* C35: batches against one catalog are serialized, so that (under the Skip
\* policy, which is the one that checks for duplicates) no row inserted by
\* the batch in progress has the file_hash of a row an earlier batch
\* inserted.
C35_BatchesDoNotShareContent ==
    (pc # "idle" /\ hist.onlySkip) =>
        \A i \in 1..Len(images) : \A j \in 1..Len(images) :
            (i <= hist.rowsAtStart /\ hist.rowsAtStart < j)
                => images[i].file_hash # images[j].file_hash

\* What holds of two batches under Skip: the only content a later batch
\* catalogs again is that of a file emptied by a copy onto itself.
BatchesShareOnlyEmptiedContent ==
    (pc # "idle" /\ hist.onlySkip) =>
        \A i \in 1..Len(images) : \A j \in 1..Len(images) :
            (i <= hist.rowsAtStart /\ hist.rowsAtStart < j
                 /\ images[i].file_hash = images[j].file_hash)
                => images[i].file_hash = Blake3(Truncated)

\* ------------------------------------------------- properties of the rows
\* C32: the edit-history log is append-only: every step of the entity layer
\* leaves each existing edit_history row as it was, and an insert adds one
\* row even when the log already holds the same snapshot.
C32_HistoryAppendOnly ==
    [][/\ \A i \in 1..Len(crud.edit_history) :
              \A j \in 1..Len(crud'.edit_history) :
                  crud'.edit_history[j].id = crud.edit_history[i].id
                      => crud'.edit_history[j] = crud.edit_history[i]
       /\ crud'.last.op = "EditHistory::insert"
              => Len(crud'.edit_history) = Len(crud.edit_history) + 1]_vars

\* What holds of the log: a step other than EditHistory::update keeps every
\* row that stays in the log as it was, and an insert always adds a row.
HistoryGrowsByInsert ==
    [][/\ crud'.last.op # "EditHistory::update" =>
              \A i \in 1..Len(crud.edit_history) :
                  \A j \in 1..Len(crud'.edit_history) :
                      crud'.edit_history[j].id = crud.edit_history[i].id
                          => crud'.edit_history[j] = crud.edit_history[i]
       /\ crud'.last.op = "EditHistory::insert"
              => Len(crud'.edit_history) = Len(crud.edit_history) + 1]_vars

\* The same snapshot of the same image was inserted twice.
SnapshotInsertedTwice ==
    /\ crud.last.op = "EditHistory::insert"
    /\ Len(crud.edit_history) = 2
    /\ crud.edit_history[1].image_id = crud.edit_history[2].image_id
    /\ crud.edit_history[1].edits_json = crud.edit_history[2].edits_json
    /\ crud.edit_history[1].id # crud.edit_history[2].id

\* C33: after any sequence of inserts and deletes every image row's folder_id
\* references an existing folder, every row of image_keywords, edits,
\* thumbnails and previews references an existing image, and no such row
\* references an image the last call removed.
C33_ReferentialIntegrity ==
    /\ \A r \in crud.images : r.folder_id \in crud.folders
    /\ referenced(crud) \subseteq image_ids(crud)
    /\ crud.last.deleted \cap referenced(crud) = {}

\* remove_image has just removed an image that had an edits row, which none
\* of its statements deletes.
C33_Witness ==
    /\ crud.last.op = "remove_image"
    /\ crud.last.ok
    /\ crud.last.deleted # {}
    /\ crud.last.deleted \subseteq crud.last.had

\* Folder::delete has just removed a folder whose image had an edits row.
FolderDeletedWithImages ==
    /\ crud.last.op = "Folder::delete"
    /\ crud.last.had # {}

====
